---- MODULE Spec2Model ----
(***************************************************************************)
(* Model of the projection core of tttg_mortgage_calculator:              *)
(*   src/mortgage.py        calculate_mortgage, calculate_amortization     *)
(*   src/src/net_worth.py   calculate_net_worth                            *)
(*   src/pages/stock_estimator.py  calculate_rsu_vesting, merge of blocks  *)
(*   calculate_property_from_payment, from the specification of the solver *)
(*                                                                         *)
(* Money is an integer number of currency units.  The Python code works   *)
(* on floats; the inputs drawn below are those for which every product    *)
(* and quotient of the code is an integer, so that the integer arithmetic *)
(* of the model is the arithmetic of the code without rounding:           *)
(*   - annual rates are multiples of 1200 percent, so rate/12/100 is an   *)
(*     integer monthly rate;                                               *)
(*   - bank_reserve_ratio is a fraction <<num, den>> and every cash flow  *)
(*     is a multiple of den;                                               *)
(*   - loan principals are multiples of the annuity denominator.          *)
(***************************************************************************)
EXTENDS Integers, Sequences, FiniteSets, TLC

VARIABLES args, pc, loc, cols, frame

vars == <<args, pc, loc, cols, frame>>

-----------------------------------------------------------------------------
(* Arithmetic helpers *)

Max(a, b) == IF a >= b THEN a ELSE b

Abs(a) == IF a < 0 THEN -a ELSE a

RECURSIVE Pow(_, _)
Pow(b, n) == IF n <= 0 THEN 1 ELSE b * Pow(b, n - 1)

\* annual_rate / 12 / 100, for annual rates that are multiples of 1200
MonthlyRate(annual_rate) == (annual_rate \div 12) \div 100

\* x * ratio for a fraction ratio = <<num, den>>
Times(x, ratio) == (x * ratio[1]) \div ratio[2]

\* 1 - ratio
OneMinus(ratio) == <<ratio[2] - ratio[1], ratio[2]>>

-----------------------------------------------------------------------------
(* src/mortgage.py *)

\* mutant: no early return for a down payment that covers the principal
calculate_mortgage_unguarded(principal, annual_interest_rate, years, down_payment) ==
    LET p == principal - down_payment IN
    IF years <= 0 THEN 0
    ELSE IF annual_interest_rate = 0 THEN p \div (years * 12)
    ELSE LET monthly_rate == MonthlyRate(annual_interest_rate)
             growth       == Pow(1 + monthly_rate, years * 12)
         IN  (p * (monthly_rate * growth)) \div (growth - 1)

\* mutant: at zero rate the principal is spread over the years, not over the months
calculate_mortgage_per_year(principal, annual_interest_rate, years, down_payment) ==
    IF principal <= down_payment THEN 0
    ELSE LET p == principal - down_payment IN
         IF years <= 0 THEN 0
         ELSE IF annual_interest_rate = 0 THEN p \div years
         ELSE LET monthly_rate == MonthlyRate(annual_interest_rate)
                  growth       == Pow(1 + monthly_rate, years * 12)
              IN  (p * (monthly_rate * growth)) \div (growth - 1)

\* calculate_mortgage(principal, annual_interest_rate, years, down_payment)
calculate_mortgage(principal, annual_interest_rate, years, down_payment) ==
    IF principal <= down_payment THEN 0
    ELSE LET p == principal - down_payment IN
         IF years <= 0 THEN 0
         ELSE IF annual_interest_rate = 0 THEN p \div (years * 12)
         ELSE LET monthly_rate == MonthlyRate(annual_interest_rate)
                  num_payments == years * 12
                  growth       == Pow(1 + monthly_rate, num_payments)
              IN  (p * (monthly_rate * growth)) \div (growth - 1)

\* whether the payment of these loan terms is an integer (no rounding)
PaymentIsExact(principal, annual_interest_rate, years, down_payment) ==
    \/ principal <= down_payment
    \/ years <= 0
    \/ /\ annual_interest_rate = 0
       /\ (principal - down_payment) % (years * 12) = 0
    \/ /\ annual_interest_rate # 0
       /\ annual_interest_rate % 1200 = 0
       /\ LET growth == Pow(1 + MonthlyRate(annual_interest_rate), years * 12)
          IN  /\ growth # 1
              /\ ((principal - down_payment)
                    * (MonthlyRate(annual_interest_rate) * growth)) % (growth - 1) = 0

\* mutant: the principal portion is not capped at the remaining balance
AmortRowUncapped(month, balance, monthly_rate, monthly_payment, extra_payment) ==
    LET interest_payment  == balance * monthly_rate
        principal_payment == monthly_payment - interest_payment + extra_payment
        new_balance       == balance - principal_payment
    IN  [Month            |-> month,
         PrincipalPayment |-> principal_payment,
         InterestPayment  |-> interest_payment,
         TotalPayment     |-> principal_payment + interest_payment,
         RemainingBalance |-> Max(new_balance, 0),
         balance          |-> new_balance]

\* one row of the schedule, lines 88-104: the balance before the month is given
AmortRow(month, balance, monthly_rate, monthly_payment, extra_payment) ==
    LET interest_payment == balance * monthly_rate
        uncapped         == monthly_payment - interest_payment + extra_payment
        principal_payment == IF balance < uncapped THEN balance ELSE uncapped
        new_balance      == balance - principal_payment
    IN  [Month            |-> month,
         PrincipalPayment |-> principal_payment,
         InterestPayment  |-> interest_payment,
         TotalPayment     |-> principal_payment + interest_payment,
         RemainingBalance |-> Max(new_balance, 0),
         balance          |-> new_balance]

RECURSIVE AmortLoop(_, _, _, _, _, _)
\* the for loop of lines 87-107, from `month` on with the running `balance`
AmortLoop(month, num_payments, balance, monthly_rate, monthly_payment, extra_payment) ==
    IF month > num_payments THEN << >>
    ELSE LET row == AmortRow(month, balance, monthly_rate, monthly_payment, extra_payment)
         IN  IF row.balance <= 0
             THEN << row >>
             ELSE << row >> \o AmortLoop(month + 1, num_payments, row.balance,
                                         monthly_rate, monthly_payment, extra_payment)

\* mutant: the loop over the months runs once at least
calculate_amortization_once(principal, annual_interest_rate, years, down_payment, extra_payment) ==
    IF principal <= down_payment THEN << >>
    ELSE LET p == principal - down_payment
         IN  AmortLoop(1, Max(1, years * 12), p, MonthlyRate(annual_interest_rate),
                       calculate_mortgage(p, annual_interest_rate, years, 0), extra_payment)

\* calculate_amortization(principal, annual_interest_rate, years, down_payment, extra_payment)
calculate_amortization(principal, annual_interest_rate, years, down_payment, extra_payment) ==
    IF principal <= down_payment THEN << >>
    ELSE LET p               == principal - down_payment
             monthly_rate    == MonthlyRate(annual_interest_rate)
             num_payments    == years * 12
             monthly_payment == calculate_mortgage(p, annual_interest_rate, years, 0)
         IN  AmortLoop(1, num_payments, p, monthly_rate, monthly_payment, extra_payment)

-----------------------------------------------------------------------------
(* src/src/income.py, src/expenses.py *)

total_monthly_income(primary_income, secondary_income, stock_income_eur) ==
    primary_income + secondary_income + stock_income_eur

total_monthly_expenses(base_expenses) == base_expenses

-----------------------------------------------------------------------------
(* src/src/net_worth.py: calculate_net_worth *)

\* mutant: the loop stops one month early, range(1, months)
LoopMonthsShort(years) == years * 12 - 1

\* line 69: months = years * 12
LoopMonths(years) == years * 12

\* lines 72-79: the income that enters the cash flow
MonthlyIncome(a) ==
    IF a.reinvest_dividends
    THEN total_monthly_income(a.monthly_income1, a.monthly_income2, 0)
    ELSE total_monthly_income(a.monthly_income1, a.monthly_income2, a.stock_income)

\* mutant: the stock income is reinvested whatever the flag says
MonthlyDividendReinvestAlways(a) == a.stock_income

\* lines 72-79: what is added to the stock wealth every month
MonthlyDividendReinvest(a) ==
    IF a.reinvest_dividends THEN a.stock_income ELSE 0

\* line 84: principal = max(0.0, property_value - down_payment)
InitialPrincipal(a) == Max(0, a.property_value - a.down_payment)

\* lines 110, 127, 132: x * (1 + annual_rate / 12 / 100)
Grow(x, annual_rate) == x * (1 + MonthlyRate(annual_rate))

\* line 135: monthly_cash_flow = monthly_income - monthly_expense_total - monthly_payment
CashFlow(monthly_income, monthly_expense_total, monthly_payment) ==
    monthly_income - monthly_expense_total - monthly_payment

\* mutant: a deficit is drawn from the stock wealth first, then from the bank
AllocateStockFirst(current_bank, current_stock, monthly_cash_flow, ratio) ==
    IF monthly_cash_flow > 0
    THEN << current_bank + Times(monthly_cash_flow, ratio),
            current_stock + Times(monthly_cash_flow, OneMinus(ratio)) >>
    ELSE IF current_stock + monthly_cash_flow >= 0
         THEN << current_bank, current_stock + monthly_cash_flow >>
         ELSE LET shortfall == Abs(monthly_cash_flow) - current_stock
              IN  << Max(0, current_bank - shortfall), 0 >>

\* mutant: the stock wealth is not floored at 0
AllocateNoClamp(current_bank, current_stock, monthly_cash_flow, ratio) ==
    IF monthly_cash_flow > 0
    THEN << current_bank + Times(monthly_cash_flow, ratio),
            current_stock + Times(monthly_cash_flow, OneMinus(ratio)) >>
    ELSE IF current_bank + monthly_cash_flow >= 0
         THEN << current_bank + monthly_cash_flow, current_stock >>
         ELSE LET shortfall == Abs(monthly_cash_flow) - current_bank
              IN  << 0, current_stock - shortfall >>

\* mutant: the two shares of a surplus are swapped
AllocateSwapped(current_bank, current_stock, monthly_cash_flow, ratio) ==
    IF monthly_cash_flow > 0
    THEN << current_bank + Times(monthly_cash_flow, OneMinus(ratio)),
            current_stock + Times(monthly_cash_flow, ratio) >>
    ELSE IF current_bank + monthly_cash_flow >= 0
         THEN << current_bank + monthly_cash_flow, current_stock >>
         ELSE LET shortfall == Abs(monthly_cash_flow) - current_bank
              IN  << 0, Max(0, current_stock - shortfall) >>

\* lines 137-148: the allocation policy; yields <<current_bank, current_stock>>
Allocate(current_bank, current_stock, monthly_cash_flow, ratio) ==
    IF monthly_cash_flow > 0
    THEN << current_bank + Times(monthly_cash_flow, ratio),
            current_stock + Times(monthly_cash_flow, OneMinus(ratio)) >>
    ELSE IF current_bank + monthly_cash_flow >= 0
         THEN << current_bank + monthly_cash_flow, current_stock >>
         ELSE LET shortfall == Abs(monthly_cash_flow) - current_bank
              IN  << 0, Max(0, current_stock - shortfall) >>

\* mutant: the schedule is read one row too far, iloc[month]
MortgageOfMonthShifted(amort, month) ==
    IF Len(amort) # 0 /\ month < Len(amort)
    THEN << amort[month + 1].RemainingBalance, amort[month + 1].PrincipalPayment >>
    ELSE << 0, 0 >>

\* lines 113-123: <<current_mortgage_balance, principal_this_month>> of a month
MortgageOfMonth(amort, month) ==
    IF Len(amort) # 0 /\ month <= Len(amort)
    THEN << amort[month].RemainingBalance, amort[month].PrincipalPayment >>
    ELSE << 0, 0 >>

\* mutant: the equity is not floored at 0
HomeEquityUnclamped(home_value, mortgage_balance) == home_value - mortgage_balance

\* line 151 and lines 176-179: max(0.0, home_value - mortgage_balance)
HomeEquity(home_value, mortgage_balance) == Max(0, home_value - mortgage_balance)

\* mutant: the down payment is not counted as principal paid
PrincipalPaidNoDown(down_payment, total_principal_paid) == total_principal_paid

\* line 163: down_payment + total_principal_paid
PrincipalPaid(down_payment, total_principal_paid) == down_payment + total_principal_paid

\* line 154: current_bank + current_stock + current_equity
NetWorth(bank, stock, equity) == bank + stock + equity

\* lines 165-183: row i (1-based here, Month = i - 1) of the returned DataFrame
FrameRow(c, i) ==
    [Month           |-> c.months_list[i],
     NetWorth        |-> c.net_worth_list[i],
     BankReserve     |-> c.bank_reserve[i],
     StockWealth     |-> c.stock_wealth[i],
     LiquidAssets    |-> c.bank_reserve[i] + c.stock_wealth[i],
     HomeValue       |-> c.home_values[i],
     HomeEquity      |-> HomeEquity(c.home_values[i], c.mortgage_balances[i]),
     MortgageBalance |-> c.mortgage_balances[i],
     PrincipalPaid   |-> c.principal_paid_list[i]]

NoLocals ==
    [months |-> 0, monthly_income |-> 0, monthly_dividend_reinvest |-> 0,
     monthly_expense_total |-> 0, monthly_payment |-> 0, amort |-> << >>,
     total_principal_paid |-> 0, month |-> 0]

NoCols ==
    [months_list |-> << >>, net_worth_list |-> << >>, bank_reserve |-> << >>,
     stock_wealth |-> << >>, home_values |-> << >>, mortgage_balances |-> << >>,
     principal_paid_list |-> << >>]

\* lines 69-106: everything before the loop
NWSetup ==
    /\ pc = "call"
    /\ LET a         == args
           principal == InitialPrincipal(a)
           initial_equity == Max(0, a.property_value - principal)
       IN  /\ loc' = [months |-> LoopMonths(a.years),
                      monthly_income |-> MonthlyIncome(a),
                      monthly_dividend_reinvest |-> MonthlyDividendReinvest(a),
                      monthly_expense_total |-> total_monthly_expenses(a.monthly_expenses),
                      monthly_payment |-> calculate_mortgage(a.property_value,
                                              a.mortgage_rate, a.mortgage_years,
                                              a.down_payment),
                      amort |-> calculate_amortization(a.property_value,
                                    a.mortgage_rate, a.mortgage_years,
                                    a.down_payment, 0),
                      total_principal_paid |-> 0,
                      month |-> 1]
           /\ cols' = [months_list |-> << 0 >>,
                       net_worth_list |-> << NetWorth(a.initial_bank_balance,
                                                a.initial_stock_wealth, initial_equity) >>,
                       bank_reserve |-> << a.initial_bank_balance >>,
                       stock_wealth |-> << a.initial_stock_wealth >>,
                       home_values |-> << a.property_value >>,
                       mortgage_balances |-> << principal >>,
                       principal_paid_list |-> << a.down_payment >>]
    /\ pc' = "loop"
    /\ UNCHANGED <<args, frame>>

\* mutant: the payment is no longer subtracted once the schedule has ended
NWMonthPaidOff ==
    /\ pc = "loop"
    /\ loc.month <= loc.months
    /\ LET n     == Len(cols.months_list)
           month == loc.month
           current_home_value == Grow(cols.home_values[n], args.home_appreciation_rate)
           mort  == MortgageOfMonth(loc.amort, month)
           current_mortgage_balance == mort[1]
           principal_this_month == mort[2]
           total_principal_paid == loc.total_principal_paid + principal_this_month
           grown_stock == Grow(cols.stock_wealth[n], args.stock_growth_rate)
                             + loc.monthly_dividend_reinvest
           grown_bank  == Grow(cols.bank_reserve[n], args.investment_return_rate)
           monthly_cash_flow == CashFlow(loc.monthly_income, loc.monthly_expense_total,
                                         IF month <= Len(loc.amort)
                                         THEN loc.monthly_payment ELSE 0)
           alloc == Allocate(grown_bank, grown_stock, monthly_cash_flow,
                             args.bank_reserve_ratio)
           current_bank  == alloc[1]
           current_stock == alloc[2]
           current_equity == HomeEquity(current_home_value, current_mortgage_balance)
           current_net_worth == NetWorth(current_bank, current_stock, current_equity)
       IN  /\ cols' = [months_list |-> Append(cols.months_list, month),
                       net_worth_list |-> Append(cols.net_worth_list, current_net_worth),
                       bank_reserve |-> Append(cols.bank_reserve, current_bank),
                       stock_wealth |-> Append(cols.stock_wealth, current_stock),
                       home_values |-> Append(cols.home_values, current_home_value),
                       mortgage_balances |-> Append(cols.mortgage_balances,
                                                    current_mortgage_balance),
                       principal_paid_list |-> Append(cols.principal_paid_list,
                                                 PrincipalPaid(args.down_payment,
                                                               total_principal_paid))]
           /\ loc' = [loc EXCEPT !.total_principal_paid = total_principal_paid,
                                 !.month = month + 1]
    /\ UNCHANGED <<args, pc, frame>>

\* lines 108-163: one iteration of the loop, for month = loc.month
NWMonth ==
    /\ pc = "loop"
    /\ loc.month <= loc.months
    /\ LET n     == Len(cols.months_list)
           month == loc.month
           current_home_value == Grow(cols.home_values[n], args.home_appreciation_rate)
           mort  == MortgageOfMonth(loc.amort, month)
           current_mortgage_balance == mort[1]
           principal_this_month == mort[2]
           total_principal_paid == loc.total_principal_paid + principal_this_month
           grown_stock == Grow(cols.stock_wealth[n], args.stock_growth_rate)
                             + loc.monthly_dividend_reinvest
           grown_bank  == Grow(cols.bank_reserve[n], args.investment_return_rate)
           monthly_cash_flow == CashFlow(loc.monthly_income, loc.monthly_expense_total,
                                         loc.monthly_payment)
           alloc == Allocate(grown_bank, grown_stock, monthly_cash_flow,
                             args.bank_reserve_ratio)
           current_bank  == alloc[1]
           current_stock == alloc[2]
           current_equity == HomeEquity(current_home_value, current_mortgage_balance)
           current_net_worth == NetWorth(current_bank, current_stock, current_equity)
       IN  /\ cols' = [months_list |-> Append(cols.months_list, month),
                       net_worth_list |-> Append(cols.net_worth_list, current_net_worth),
                       bank_reserve |-> Append(cols.bank_reserve, current_bank),
                       stock_wealth |-> Append(cols.stock_wealth, current_stock),
                       home_values |-> Append(cols.home_values, current_home_value),
                       mortgage_balances |-> Append(cols.mortgage_balances,
                                                    current_mortgage_balance),
                       principal_paid_list |-> Append(cols.principal_paid_list,
                                                 PrincipalPaid(args.down_payment,
                                                               total_principal_paid))]
           /\ loc' = [loc EXCEPT !.total_principal_paid = total_principal_paid,
                                 !.month = month + 1]
    /\ UNCHANGED <<args, pc, frame>>

\* lines 165-183: the loop is over, the DataFrame is built and returned
NWReturn ==
    /\ pc = "loop"
    /\ loc.month > loc.months
    /\ frame' = [i \in 1..Len(cols.months_list) |-> FrameRow(cols, i)]
    /\ pc' = "done"
    /\ UNCHANGED <<args, loc, cols>>

-----------------------------------------------------------------------------
(* Inputs of calculate_net_worth *)

\* longest projection horizon, in years
MaxYears == 2

\* longest loan term of the zero-rate loans, in years
MaxMortgageYears == 2

BankBalances == {-4, 0, 40}

StockWealths == {0, 8}

Incomes1 == {0, 8, 24}

Incomes2 == {0}

StockIncomes == {-4, 0, 4}

ExpenseTotals == {8}

\* annual rates in percent; 1200 percent a year is 100 percent a month
GrowthRates == {0, 1200}

\* home_appreciation_rate: a falling market as well
HomeRates == {-1200, 0, 1200}

\* bank_reserve_ratio as a fraction <<numerator, denominator>>: 0, 1/2, 1
ReserveRatios == {<<0, 1>>, <<1, 2>>, <<1, 1>>}

\* property_value, down_payment, mortgage_rate, mortgage_years
Loans ==
    {[property_value |-> 0, down_payment |-> 0, mortgage_rate |-> 0, mortgage_years |-> 1],
     [property_value |-> 48, down_payment |-> 60, mortgage_rate |-> 1200, mortgage_years |-> 1],
     [property_value |-> 4107, down_payment |-> 12, mortgage_rate |-> 1200, mortgage_years |-> 1],
     [property_value |-> 4107, down_payment |-> 12, mortgage_rate |-> 1200, mortgage_years |-> 0]}
    \cup
    {[property_value |-> 156, down_payment |-> 12, mortgage_rate |-> 0, mortgage_years |-> y] :
        y \in -1..MaxMortgageYears}

NWArgs(bank, stock, i1, i2, si, ex, years, loan, har, irr, sgr, ratio, reinvest) ==
    [initial_bank_balance   |-> bank,
     monthly_income1        |-> i1,
     monthly_income2        |-> i2,
     stock_income           |-> si,
     monthly_expenses       |-> ex,
     years                  |-> years,
     property_value         |-> loan.property_value,
     home_appreciation_rate |-> har,
     investment_return_rate |-> irr,
     stock_growth_rate      |-> sgr,
     mortgage_rate          |-> loan.mortgage_rate,
     mortgage_years         |-> loan.mortgage_years,
     down_payment           |-> loan.down_payment,
     initial_stock_wealth   |-> stock,
     bank_reserve_ratio     |-> ratio,
     reinvest_dividends     |-> reinvest]

\* the two reinvestment tests of tests/test_net_worth.py (lines 173-254), without the
\* property, whose payment 150000/360 is no integer
TestScenarios ==
    {NWArgs(50000, 10000, 3000, 0, 500, 2000, 1, [property_value |-> 0, down_payment |-> 0,
            mortgage_rate |-> 0, mortgage_years |-> 30], 0, 0, 0, <<1, 1>>, reinvest) :
        reinvest \in BOOLEAN}

\* the cash flow the loop will use
ArgsCashFlow(a) ==
    CashFlow(MonthlyIncome(a), total_monthly_expenses(a.monthly_expenses),
             calculate_mortgage(a.property_value, a.mortgage_rate, a.mortgage_years,
                                a.down_payment))

\* the inputs on which the integer arithmetic of the model is exact and stays within
\* the 32-bit integers of the model checker
ExactArgs(a) ==
    /\ PaymentIsExact(a.property_value, a.mortgage_rate, a.mortgage_years, a.down_payment)
    /\ (ArgsCashFlow(a) * a.bank_reserve_ratio[1]) % a.bank_reserve_ratio[2] = 0
    /\ a.years > 1 =>
          /\ a.home_appreciation_rate = 0
          /\ a.investment_return_rate = 0
          /\ a.stock_growth_rate = 0

NWInputs ==
    {a \in {NWArgs(bank, stock, i1, i2, si, ex, years, loan, har, irr, sgr, ratio, reinvest) :
              bank \in BankBalances, stock \in StockWealths, i1 \in Incomes1,
              i2 \in Incomes2, si \in StockIncomes, ex \in ExpenseTotals,
              years \in 0..MaxYears, loan \in Loans, har \in HomeRates,
              irr \in GrowthRates, sgr \in GrowthRates, ratio \in ReserveRatios,
              reinvest \in BOOLEAN} : ExactArgs(a)}
    \cup TestScenarios

-----------------------------------------------------------------------------
(* The projection as a state machine *)

Init ==
    /\ args \in NWInputs
    /\ pc = "call"
    /\ loc = NoLocals
    /\ cols = NoCols
    /\ frame = << >>

Next == NWSetup \/ NWMonth \/ NWReturn

Spec == Init /\ [][Next]_vars

-----------------------------------------------------------------------------
(* Reading the returned series.  Row i of frame is month i - 1. *)

Done == pc = "done"

Rows == 1..Len(frame)

\* rows that have a predecessor, i.e. months 1..years*12
LaterRows == 2..Len(frame)

Schedule ==
    calculate_amortization(args.property_value, args.mortgage_rate,
                           args.mortgage_years, args.down_payment, 0)

Dividend == IF args.reinvest_dividends THEN args.stock_income ELSE 0

RegularIncome ==
    args.monthly_income1 + args.monthly_income2
        + (IF args.reinvest_dividends THEN 0 ELSE args.stock_income)

\* income - expenses - mortgage payment
Flow ==
    RegularIncome - args.monthly_expenses
        - calculate_mortgage(args.property_value, args.mortgage_rate,
                             args.mortgage_years, args.down_payment)

\* the balances of row i - 1 after interest, growth and reinvested dividends
BankAfterInterest(i) == Grow(frame[i - 1].BankReserve, args.investment_return_rate)

StockAfterGrowth(i) == Grow(frame[i - 1].StockWealth, args.stock_growth_rate) + Dividend

\* stock wealth was drawn on in the month of row i
StockDrawn(i) == frame[i].StockWealth < StockAfterGrowth(i)

RatioInUnit == 
    /\ args.bank_reserve_ratio[2] > 0
    /\ 0 <= args.bank_reserve_ratio[1]
    /\ args.bank_reserve_ratio[1] <= args.bank_reserve_ratio[2]

\* non-negative starting balances, nothing negative reinvested, no growth factor below 0
NonNegativeInputs ==
    /\ args.initial_bank_balance >= 0
    /\ args.initial_stock_wealth >= 0
    /\ Dividend >= 0
    /\ 1 + MonthlyRate(args.investment_return_rate) >= 0
    /\ 1 + MonthlyRate(args.stock_growth_rate) >= 0

NoNegativeBalance ==
    \A i \in Rows : frame[i].BankReserve >= 0 /\ frame[i].StockWealth >= 0

RECURSIVE SumPrincipal(_, _)
\* the principal payments of the schedule's rows 1..n
SumPrincipal(amort, n) ==
    IF n <= 0 THEN 0 ELSE amort[n].PrincipalPayment + SumPrincipal(amort, n - 1)

Min(a, b) == IF a <= b THEN a ELSE b

-----------------------------------------------------------------------------
(* Claims about calculate_net_worth *)

C2_NeverNegativeAsStated ==
    (Done /\ RatioInUnit) => NoNegativeBalance

\* C2 amended: for every input with bank_reserve_ratio in [0,1], non-negative initial
\* balances, no negative reinvested stock income and growth rates of at least -1200
\* percent, every row has Bank Reserve >= 0 and Stock Wealth >= 0; a deficit larger
\* than the balances leaves them at 0.
C2_NeverNegative ==
    (Done /\ RatioInUnit /\ NonNegativeInputs) => NoNegativeBalance

\* C2 witness: a month whose deficit exceeded both balances, clamped to 0.
C2_Witness ==
    /\ Done /\ RatioInUnit /\ NonNegativeInputs
    /\ \E i \in LaterRows :
          /\ Flow < 0
          /\ BankAfterInterest(i) > 0
          /\ StockAfterGrowth(i) > 0
          /\ BankAfterInterest(i) + StockAfterGrowth(i) + Flow < 0
          /\ frame[i].BankReserve = 0
          /\ frame[i].StockWealth = 0

\* what C3 says of the month of row i: the balances after interest and growth are
\* increased by the two shares of the cash flow
SplitApplied(i) ==
    /\ frame[i].BankReserve
          = BankAfterInterest(i) + Times(Flow, args.bank_reserve_ratio)
    /\ frame[i].StockWealth
          = StockAfterGrowth(i) + Times(Flow, OneMinus(args.bank_reserve_ratio))
    /\ (frame[i].BankReserve - BankAfterInterest(i))
          + (frame[i].StockWealth - StockAfterGrowth(i)) = Flow

BankStaysInitial ==
    \A i \in Rows : frame[i].BankReserve = args.initial_bank_balance

\* C3 as stated: in every month whose cash flow is >= 0 the cash flow is split by
\* bank_reserve_ratio, the increments adding up to the cash flow; with ratio 0 and
\* zero bank interest the Bank Reserve stays at its initial value.
C3_SplitAsStated ==
    (Done /\ Flow >= 0) =>
        /\ \A i \in LaterRows : SplitApplied(i)
        /\ (args.bank_reserve_ratio[1] = 0 /\ args.investment_return_rate = 0) =>
              BankStaysInitial

\* C3 amended: in every month whose cash flow is > 0, or is 0 while the Bank Reserve
\* after interest is not negative, Bank Reserve is increased by cashFlow * ratio and
\* Stock Wealth by cashFlow * (1 - ratio), the increments adding up to the cash flow;
\* with ratio 0, zero bank interest and such a cash flow the Bank Reserve stays at its
\* initial value for the whole projection.
C3_Split ==
    Done =>
        /\ \A i \in LaterRows :
              (Flow > 0 \/ (Flow = 0 /\ BankAfterInterest(i) >= 0)) => SplitApplied(i)
        /\ ( /\ args.bank_reserve_ratio[1] = 0
             /\ args.investment_return_rate = 0
             /\ (Flow > 0 \/ (Flow = 0 /\ args.initial_bank_balance >= 0)) ) =>
              BankStaysInitial

\* C3 witness: a finished run with a positive cash flow split in halves.
C3_Witness ==
    /\ Done /\ Flow > 0
    /\ args.bank_reserve_ratio = <<1, 2>>
    /\ Len(frame) >= 13
    /\ frame[2].BankReserve > BankAfterInterest(2)
    /\ frame[2].StockWealth > StockAfterGrowth(2)

\* the routing of stock_income, as C4 states it: row i follows from row i - 1 with the
\* dividend added to the stock wealth and left out of the cash flow when reinvesting,
\* and the other way round when not
RoutedByFlag(i) ==
    << frame[i].BankReserve, frame[i].StockWealth >>
        = Allocate(BankAfterInterest(i),
                   Grow(frame[i - 1].StockWealth, args.stock_growth_rate)
                      + (IF args.reinvest_dividends THEN args.stock_income ELSE 0),
                   args.monthly_income1 + args.monthly_income2
                      + (IF args.reinvest_dividends THEN 0 ELSE args.stock_income)
                      - args.monthly_expenses
                      - calculate_mortgage(args.property_value, args.mortgage_rate,
                                           args.mortgage_years, args.down_payment),
                   args.bank_reserve_ratio)

ZeroGrowthAllToBank ==
    /\ args.stock_growth_rate = 0
    /\ args.investment_return_rate = 0
    /\ args.bank_reserve_ratio[1] = args.bank_reserve_ratio[2]

StockFollowsDividend ==
    \A i \in Rows :
        frame[i].StockWealth
            = args.initial_stock_wealth
                + (i - 1) * (IF args.reinvest_dividends THEN args.stock_income ELSE 0)

\* C4 as stated: stock_income is routed by reinvest_dividends; with zero growth rates,
\* non-negative cash flow and ratio 1, Stock Wealth after m months is
\* initial_stock_wealth + m * stock_income when reinvesting, initial_stock_wealth if not.
C4_ReinvestAsStated ==
    Done =>
        /\ \A i \in LaterRows : RoutedByFlag(i)
        /\ (ZeroGrowthAllToBank /\ Flow >= 0) => StockFollowsDividend

\* C4 amended: as stated, the closed form holding for a positive cash flow, or a cash
\* flow of 0 with a non-negative initial bank balance.
C4_Reinvest ==
    Done =>
        /\ \A i \in LaterRows : RoutedByFlag(i)
        /\ ( /\ ZeroGrowthAllToBank
             /\ (Flow > 0 \/ (Flow = 0 /\ args.initial_bank_balance >= 0)) ) =>
              StockFollowsDividend

\* C4 witness: 12 months of 500 reinvested on top of 10000 make 16000.
C4_Witness ==
    /\ Done /\ ZeroGrowthAllToBank /\ Flow > 0
    /\ args.reinvest_dividends
    /\ args.stock_income = 500
    /\ args.initial_stock_wealth = 10000
    /\ Len(frame) = 13
    /\ frame[13].StockWealth = 16000

\* C5: a projection over years >= 1 returns years*12 + 1 rows with Month 0, 1, ...,
\* years*12 in this order.
C5_RowCount ==
    (Done /\ args.years >= 1) =>
        /\ Len(frame) = args.years * 12 + 1
        /\ \A i \in Rows : frame[i].Month = i - 1

\* C5 witness: a finished two-year projection of 25 rows.
C5_Witness ==
    Done /\ args.years = 2 /\ Len(frame) = 25 /\ frame[25].Month = 24

\* C6: every row, the seeded month-0 row included, has Home Equity = max(0, Home Value
\* - Mortgage Balance), Liquid Assets = Bank Reserve + Stock Wealth and Net Worth =
\* Bank Reserve + Stock Wealth + Home Equity.
C6_RowIdentities ==
    Done =>
        /\ Len(frame) >= 1
        /\ frame[1].Month = 0
        /\ frame[1].BankReserve = args.initial_bank_balance
        /\ frame[1].StockWealth = args.initial_stock_wealth
        /\ frame[1].HomeValue = args.property_value
        /\ frame[1].MortgageBalance = Max(0, args.property_value - args.down_payment)
        /\ \A i \in Rows :
              /\ frame[i].HomeEquity
                    = (IF frame[i].HomeValue - frame[i].MortgageBalance > 0
                       THEN frame[i].HomeValue - frame[i].MortgageBalance ELSE 0)
              /\ frame[i].LiquidAssets = frame[i].BankReserve + frame[i].StockWealth
              /\ frame[i].NetWorth
                    = frame[i].BankReserve + frame[i].StockWealth + frame[i].HomeEquity

\* C6 witness: a row whose home is worth less than the mortgage on it, and one whose
\* equity is positive.
C6_Witness ==
    /\ Done
    /\ \E i \in Rows :
          frame[i].HomeValue < frame[i].MortgageBalance /\ frame[i].HomeEquity = 0
    /\ \E i \in Rows : frame[i].HomeEquity > 0 /\ frame[i].MortgageBalance > 0

\* C7: Mortgage Balance never increases from one row to the next, is the Remaining
\* Balance of the schedule row of the same month while the schedule lasts, and is 0 in
\* every later month; the schedule has at most mortgage_years*12 rows.
C7_MortgageBalance ==
    Done =>
        LET schedule == Schedule
        IN  /\ \A i \in LaterRows :
                  frame[i].MortgageBalance <= frame[i - 1].MortgageBalance
            /\ \A i \in LaterRows :
                  IF i - 1 <= Len(schedule)
                  THEN frame[i].MortgageBalance = schedule[i - 1].RemainingBalance
                  ELSE frame[i].MortgageBalance = 0
            /\ Len(schedule) <= Max(0, args.mortgage_years * 12)

\* C7 witness: a two-year projection of a one-year loan at interest: the balance
\* falls during the first year and is 0 afterwards.
C7_Witness ==
    /\ Done
    /\ args.mortgage_rate > 0
    /\ Len(Schedule) = 12
    /\ Len(frame) = 25
    /\ frame[12].MortgageBalance > 0
    /\ frame[12].MortgageBalance < frame[2].MortgageBalance
    /\ frame[14].MortgageBalance = 0

\* C8: Principal Paid of row m is down_payment plus the schedule's principal payments
\* of months 1..m; it is down_payment in month 0, never decreases and strictly
\* increases while the mortgage is being repaid.
C8_PrincipalPaid ==
    Done =>
        LET schedule == Schedule
        IN  /\ \A i \in Rows :
                  frame[i].PrincipalPaid
                     = args.down_payment
                          + SumPrincipal(schedule, Min(i - 1, Len(schedule)))
            /\ Len(frame) >= 1 /\ frame[1].PrincipalPaid = args.down_payment
            /\ \A i \in LaterRows :
                  /\ frame[i].PrincipalPaid >= frame[i - 1].PrincipalPaid
                  /\ i - 1 <= Len(schedule) =>
                        frame[i].PrincipalPaid > frame[i - 1].PrincipalPaid

\* C8 witness: a loan repaid within the horizon: the principal paid ends at the
\* property value, down payment included.
C8_Witness ==
    /\ Done
    /\ args.down_payment > 0
    /\ Len(Schedule) = 12
    /\ Len(frame) = 25
    /\ frame[25].PrincipalPaid = args.property_value
    /\ frame[2].PrincipalPaid > args.down_payment

-----------------------------------------------------------------------------
(* src/pages/stock_estimator.py: calculate_rsu_vesting *)
(* Money is in cents; usd_to_eur is a fraction <<num, den>>.  Months are 1-based, as *)
(* the Month column: vest_index + 1 of the code.                                     *)

RSUColumns ==
    {"RSU_Stocks_Vested", "RSU_Stocks_Sold", "RSU_Stocks_Kept", "RSU_Tax_Due",
     "RSU_Sale_Proceeds", "RSU_Transaction_Fee", "RSU_Rest_Amount", "RSU_Value",
     "RSU_Cumulative_Stocks", "RSU_Cumulative_Value", "RSU_Cumulative_Rest"}

\* lines 240-254: the all-zero data of `months` months
ZeroData(months) ==
    [c \in RSUColumns \cup {"Month"} |->
        IF c = "Month" THEN [m \in 1..months |-> m] ELSE [m \in 1..months |-> 0]]

\* mutant: the remainder of the division is not distributed
QuarterStocksNoRemainder(q, base_stocks_per_quarter, remainder) ==
    base_stocks_per_quarter

\* line 318: base_stocks_per_quarter + (1 if q < remainder else 0)
QuarterStocks(q, base_stocks_per_quarter, remainder) ==
    base_stocks_per_quarter + (IF q < remainder THEN 1 ELSE 0)

RECURSIVE DelayedStocks(_, _, _)
\* lines 333-335: the stocks of the quarters 0..delayed_quarters-1
DelayedStocks(delayed_quarters, base_stocks_per_quarter, remainder) ==
    IF delayed_quarters <= 0 THEN 0
    ELSE QuarterStocks(delayed_quarters - 1, base_stocks_per_quarter, remainder)
            + DelayedStocks(delayed_quarters - 1, base_stocks_per_quarter, remainder)

\* mutant: the first payout after the delay forgets the delayed quarters
QuarterPayoutNoCliff(q, l, a) ==
    << a.start_offset + (q + 1) * 3,
       QuarterStocks(q, l.base_stocks_per_quarter, l.remainder) >>

\* lines 328-339: <<payout_month, vested>> of a quarter q that is paid out
QuarterPayout(q, l, a) ==
    LET quarter_stocks == QuarterStocks(q, l.base_stocks_per_quarter, l.remainder)
        quarter_month  == (q + 1) * 3
    IN  IF q = l.delayed_quarters /\ l.delayed_quarters > 0
        THEN << a.start_offset + a.delay_months + 3,
                DelayedStocks(l.delayed_quarters, l.base_stocks_per_quarter, l.remainder)
                   + quarter_stocks >>
        ELSE << a.start_offset + quarter_month, quarter_stocks >>

\* mutant: a payout after the last month of the horizon is booked on the last month
process_vesting_clamped(data, a, month, vested) ==
    IF vested <= 0 \/ month - 1 < 0 \/ Len(a.stock_prices) = 0
    THEN data
    ELSE LET at                  == IF month > Len(a.stock_prices)
                                    THEN Len(a.stock_prices) ELSE month
             stock_price_usd     == a.stock_prices[at]
             tax_due_usd         == (vested * stock_price_usd) \div 2
             stocks_sold         == (vested \div 2) + 1
             stocks_kept         == vested - stocks_sold
             sale_proceeds_usd   == stocks_sold * (stock_price_usd - a.selling_loss_usd)
             rest_amount_usd     == sale_proceeds_usd - tax_due_usd - a.transaction_fee_usd
         IN  [data EXCEPT
                 !.RSU_Stocks_Vested[at]   = @ + vested,
                 !.RSU_Stocks_Sold[at]     = @ + stocks_sold,
                 !.RSU_Stocks_Kept[at]     = @ + stocks_kept,
                 !.RSU_Tax_Due[at]         = @ + Times(tax_due_usd, a.usd_to_eur),
                 !.RSU_Sale_Proceeds[at]   = @ + Times(sale_proceeds_usd, a.usd_to_eur),
                 !.RSU_Transaction_Fee[at] = @ + Times(a.transaction_fee_usd, a.usd_to_eur),
                 !.RSU_Rest_Amount[at]     = @ + Times(rest_amount_usd, a.usd_to_eur),
                 !.RSU_Value[at]           =
                     Max(0, @ + stocks_kept * Times(stock_price_usd, a.usd_to_eur))]

\* mutant: exactly half of the vested stocks is sold, without the extra one
process_vesting_half(data, a, month, vested) ==
    IF vested <= 0 \/ month - 1 < 0 \/ month - 1 >= Len(a.stock_prices)
    THEN data
    ELSE LET stock_price_usd     == a.stock_prices[month]
             tax_due_usd         == (vested * stock_price_usd) \div 2
             stocks_sold         == vested \div 2
             stocks_kept         == vested - stocks_sold
             sale_proceeds_usd   == stocks_sold * (stock_price_usd - a.selling_loss_usd)
             rest_amount_usd     == sale_proceeds_usd - tax_due_usd - a.transaction_fee_usd
         IN  [data EXCEPT
                 !.RSU_Stocks_Vested[month]   = @ + vested,
                 !.RSU_Stocks_Sold[month]     = @ + stocks_sold,
                 !.RSU_Stocks_Kept[month]     = @ + stocks_kept,
                 !.RSU_Tax_Due[month]         = @ + Times(tax_due_usd, a.usd_to_eur),
                 !.RSU_Sale_Proceeds[month]   = @ + Times(sale_proceeds_usd, a.usd_to_eur),
                 !.RSU_Transaction_Fee[month] = @ + Times(a.transaction_fee_usd, a.usd_to_eur),
                 !.RSU_Rest_Amount[month]     = @ + Times(rest_amount_usd, a.usd_to_eur),
                 !.RSU_Value[month]           =
                     Max(0, @ + stocks_kept * Times(stock_price_usd, a.usd_to_eur))]

\* lines 274-312: process_vesting(vest_index, vested), with month = vest_index + 1
process_vesting(data, a, month, vested) ==
    IF vested <= 0 \/ month - 1 < 0 \/ month - 1 >= Len(a.stock_prices)
    THEN data
    ELSE LET stock_price_usd     == a.stock_prices[month]
             tax_due_usd         == (vested * stock_price_usd) \div 2
             stocks_sold         == (vested \div 2) + 1
             stocks_kept         == vested - stocks_sold
             etrade_price_usd    == stock_price_usd - a.selling_loss_usd
             sale_proceeds_usd   == stocks_sold * etrade_price_usd
             rest_amount_usd     == sale_proceeds_usd - tax_due_usd - a.transaction_fee_usd
             stock_price_eur     == Times(stock_price_usd, a.usd_to_eur)
             tax_due_eur         == Times(tax_due_usd, a.usd_to_eur)
             sale_proceeds_eur   == Times(sale_proceeds_usd, a.usd_to_eur)
             transaction_fee_eur == Times(a.transaction_fee_usd, a.usd_to_eur)
             rest_amount_eur     == Times(rest_amount_usd, a.usd_to_eur)
             value_eur           == stocks_kept * stock_price_eur
         IN  [data EXCEPT
                 !.RSU_Stocks_Vested[month]   = @ + vested,
                 !.RSU_Stocks_Sold[month]     = @ + stocks_sold,
                 !.RSU_Stocks_Kept[month]     = @ + stocks_kept,
                 !.RSU_Tax_Due[month]         = @ + tax_due_eur,
                 !.RSU_Sale_Proceeds[month]   = @ + sale_proceeds_eur,
                 !.RSU_Transaction_Fee[month] = @ + transaction_fee_eur,
                 !.RSU_Rest_Amount[month]     = @ + rest_amount_eur,
                 !.RSU_Value[month]           = Max(0, @ + value_eur)]

RECURSIVE RunningSum(_, _)
\* lines 345-347: the running sum of a column up to month m
RunningSum(column, m) == IF m <= 0 THEN 0 ELSE column[m] + RunningSum(column, m - 1)

\* lines 344-351: the cumulative columns
Cumulate(data, a) ==
    LET months == Len(a.stock_prices) IN
    [data EXCEPT
        !.RSU_Cumulative_Stocks =
            [m \in 1..months |-> RunningSum(data.RSU_Stocks_Kept, m)],
        !.RSU_Cumulative_Value =
            [m \in 1..months |->
                RunningSum(data.RSU_Stocks_Kept, m)
                   * Times(a.stock_prices[m], a.usd_to_eur)],
        !.RSU_Cumulative_Rest =
            [m \in 1..months |-> RunningSum(data.RSU_Rest_Amount, m)]]

\* line 260: total_quarters = vesting_period_months // 3
TotalQuarters(vesting_period_months) == vesting_period_months \div 3

RECURSIVE QuarterLoop(_, _, _, _)
\* lines 314-342: the loop over the quarters q, q + 1, ..., total_quarters - 1
QuarterLoop(data, l, a, q) ==
    IF q >= l.total_quarters THEN data
    ELSE LET payout == QuarterPayout(q, l, a)
             next   == IF (q + 1) * 3 <= a.delay_months
                       THEN data
                       ELSE process_vesting(data, a, payout[1], payout[2])
         IN  QuarterLoop(next, l, a, q + 1)

\* lines 200-353: the series calculate_rsu_vesting returns for the arguments a
calculate_rsu_vesting(a) ==
    LET data           == ZeroData(Len(a.stock_prices))
        total_quarters == TotalQuarters(a.vesting_period_months)
    IN  IF a.vesting_period_months <= 0 \/ total_quarters <= 0
        THEN data
        ELSE Cumulate(QuarterLoop(data,
                                  [total_quarters |-> total_quarters,
                                   base_stocks_per_quarter |-> a.total_stocks \div total_quarters,
                                   remainder |-> a.total_stocks % total_quarters,
                                   delayed_quarters |-> a.delay_months \div 3],
                                  a, 0), a)

\* lines 240-271: the zero data, the early returns and the quarter arithmetic
RSUSetup ==
    /\ pc = "rsu_call"
    /\ LET a      == args
           months == Len(a.stock_prices)
           data   == ZeroData(months)
           total_quarters == TotalQuarters(a.vesting_period_months)
       IN  IF a.vesting_period_months <= 0 \/ total_quarters <= 0
           THEN /\ frame' = data
                /\ cols' = data
                /\ loc' = [months |-> months]
                /\ pc' = "rsu_done"
           ELSE /\ cols' = data
                /\ loc' = [months |-> months,
                           total_quarters |-> total_quarters,
                           base_stocks_per_quarter |-> a.total_stocks \div total_quarters,
                           remainder |-> a.total_stocks % total_quarters,
                           delayed_quarters |-> a.delay_months \div 3,
                           stocks_distributed |-> 0,
                           q |-> 0]
                /\ pc' = "rsu_quarters"
                /\ frame' = frame
    /\ UNCHANGED args

\* lines 316-342: one iteration of the loop over the quarters, for q = loc.q
RSUQuarter ==
    /\ pc = "rsu_quarters"
    /\ loc.q < loc.total_quarters
    /\ LET q == loc.q
           quarter_stocks == QuarterStocks(q, loc.base_stocks_per_quarter, loc.remainder)
           quarter_month  == (q + 1) * 3
           payout == QuarterPayout(q, loc, args)
       IN  /\ loc' = [loc EXCEPT !.stocks_distributed = @ + quarter_stocks, !.q = q + 1]
           /\ cols' = IF quarter_month <= args.delay_months
                      THEN cols
                      ELSE process_vesting(cols, args, payout[1], payout[2])
    /\ UNCHANGED <<args, pc, frame>>

\* lines 344-353: the cumulative columns are filled and the DataFrame returned
RSUCumulative ==
    /\ pc = "rsu_quarters"
    /\ loc.q >= loc.total_quarters
    /\ cols' = Cumulate(cols, args)
    /\ frame' = cols'
    /\ pc' = "rsu_done"
    /\ UNCHANGED <<args, loc>>

-----------------------------------------------------------------------------
(* Inputs of calculate_rsu_vesting *)

\* longest horizon, len(stock_prices)
MaxHorizonMonths == 52

TotalStocks == {0, 7, 35, 480}

VestingPeriods == {-3, 0, 2, 3, 12, 13, 14, 48}

StartOffsets == {0, 2, 4}

DelayMonths == {0, 3, 4, 12}

Horizons == {12, MaxHorizonMonths}

\* a flat path at 40.00 and a rising one, in cents
PricePaths(months) ==
    {[m \in 1..months |-> 4000], [m \in 1..months |-> 3000 + 20 * m]}

FxRates == {<<1, 1>>, <<2, 1>>}

RSUInputs ==
    {[total_stocks          |-> total,
      vesting_period_months |-> vest,
      stock_prices          |-> prices,
      start_offset          |-> start,
      delay_months          |-> delay,
      usd_to_eur            |-> fx,
      transaction_fee_usd   |-> 999,
      selling_loss_usd      |-> 5] :
        total \in TotalStocks, vest \in VestingPeriods, start \in StartOffsets,
        delay \in DelayMonths, fx \in FxRates,
        prices \in UNION {PricePaths(months) : months \in Horizons}}

InitRSU ==
    /\ args \in RSUInputs
    /\ pc = "rsu_call"
    /\ loc = [months |-> 0]
    /\ cols = << >>
    /\ frame = << >>

NextRSU == RSUSetup \/ RSUQuarter \/ RSUCumulative

SpecRSU == InitRSU /\ [][NextRSU]_vars

-----------------------------------------------------------------------------
(* Claims about calculate_rsu_vesting *)

RSUDone == pc = "rsu_done"

Vested(m) == frame.RSU_Stocks_Vested[m]

Months == 1..Len(args.stock_prices)

\* the quarterly tranche q = 0, 1, ... of the block, from the arguments alone
Tranche(q) ==
    LET total_quarters == args.vesting_period_months \div 3
    IN  (args.total_stocks \div total_quarters)
           + (IF q < args.total_stocks % total_quarters THEN 1 ELSE 0)

RECURSIVE TranchesUpTo(_)
\* the tranches 0..q together
TranchesUpTo(q) == IF q < 0 THEN 0 ELSE Tranche(q) + TranchesUpTo(q - 1)

\* start_offset + delay_months + 3, the month of the first payout after a cliff
CliffPayoutMonth == args.start_offset + args.delay_months + 3

\* the block of the examples: 480 stocks over 48 months
ExampleBlock(start, delay) ==
    /\ args.total_stocks = 480
    /\ args.vesting_period_months = 48
    /\ args.start_offset = start
    /\ args.delay_months = delay

\* no payout before CliffPayoutMonth; there, if the horizon reaches it, the tranches of
\* the delay_months/3 quarters of the cliff and of the concurrent quarter in one payout
CliffPaidAtOnce ==
    /\ \A m \in Months : m < CliffPayoutMonth => Vested(m) = 0
    /\ CliffPayoutMonth \in Months =>
          Vested(CliffPayoutMonth) = TranchesUpTo(args.delay_months \div 3)
    /\ (ExampleBlock(2, 12) /\ 17 \in Months) =>
          /\ Vested(17) > 0
          /\ \A m \in Months : m < 17 => Vested(m) = 0

\* vesting_period_months as the function requires it: positive and divisible by 3
WholeQuarters == args.vesting_period_months > 0 /\ args.vesting_period_months % 3 = 0

PayoutMonths == {m \in Months : Vested(m) # 0}

LaterPayoutsOf(m, n) == {k \in Months : k > m /\ Vested(k) = n}

\* C10 (the help text of the page): the first payout of a block is at month
\* start + delay + 1 and holds exactly the delayed quarters, followed by one payout per
\* remaining quarter: 480 stocks over 48 months with start 2, delay 12 pay 120 at month
\* 15 and then 12 times 30; with start 4, delay 0 they pay 30 at month 5 and then 15
\* times 30.
C10_HelpText ==
    (RSUDone /\ Len(args.stock_prices) >= 52) =>
        /\ ExampleBlock(2, 12) =>
              /\ \A m \in Months : m < 15 => Vested(m) = 0
              /\ Vested(15) = 120
              /\ Cardinality(LaterPayoutsOf(15, 30)) = 12
              /\ Cardinality(PayoutMonths) = 13
        /\ ExampleBlock(4, 0) =>
              /\ \A m \in Months : m < 5 => Vested(m) = 0
              /\ Vested(5) = 30
              /\ Cardinality(LaterPayoutsOf(5, 30)) = 15
              /\ Cardinality(PayoutMonths) = 16

-----------------------------------------------------------------------------
\* the payout recorded at month m of the returned series, amounts in EUR cents
Payout(m) ==
    [vested   |-> frame.RSU_Stocks_Vested[m],
     sold     |-> frame.RSU_Stocks_Sold[m],
     kept     |-> frame.RSU_Stocks_Kept[m],
     tax      |-> frame.RSU_Tax_Due[m],
     proceeds |-> frame.RSU_Sale_Proceeds[m],
     fee      |-> frame.RSU_Transaction_Fee[m],
     rest     |-> frame.RSU_Rest_Amount[m],
     value    |-> frame.RSU_Value[m]]

\* a USD amount in EUR
InEUR(usd) == Times(usd, args.usd_to_eur)

\* the tax-sell rule at a month m with a payout of v stocks
TaxSellRule(m) ==
    LET v == Payout(m).vested
        p == args.stock_prices[m]
        l == args.selling_loss_usd
        f == args.transaction_fee_usd
        sold == (v \div 2) + 1
    IN  /\ Payout(m).sold = sold
        /\ Payout(m).kept = v - sold
        /\ Payout(m).sold + Payout(m).kept = v
        /\ Payout(m).kept >= 0
        /\ 2 * Payout(m).tax = InEUR(v * p)
        /\ Payout(m).proceeds = InEUR(sold * (p - l))
        /\ Payout(m).rest = InEUR(sold * (p - l) - (v * p) \div 2 - f)
        /\ Payout(m).value = (v - sold) * InEUR(p)

\* the example: 35 stocks at 40.00 USD, selling loss 0.05, fee 9.99, at 1 EUR per USD
TaxSellExample(m) ==
    /\ Payout(m).vested = 35
    /\ args.stock_prices[m] = 4000
    /\ args.selling_loss_usd = 5
    /\ args.transaction_fee_usd = 999
    /\ args.usd_to_eur = <<1, 1>>

\* C11: every month with a payout of vested >= 1 stocks records sold = vested // 2 + 1,
\* kept = vested - sold >= 0, tax = vested * p / 2, proceeds = sold * (p - l),
\* rest = proceeds - tax - f and the kept stocks valued at p; 35 stocks at 40.00 give
\* sold 18, tax 700.00, proceeds 719.10 and rest 9.11.
C11_TaxSell ==
    RSUDone =>
        \A m \in Months :
            /\ Payout(m).vested >= 1 => TaxSellRule(m)
            /\ TaxSellExample(m) =>
                  /\ Payout(m).sold = 18
                  /\ Payout(m).tax = 70000
                  /\ Payout(m).proceeds = 71910
                  /\ Payout(m).rest = 911

\* C11 witness: a payout of 35 stocks at 40.00: 18 sold, 17 kept, rest 9.11.
C11_Witness ==
    /\ RSUDone
    /\ \E m \in Months :
          /\ TaxSellExample(m)
          /\ Payout(m).sold = 18
          /\ Payout(m).kept = 17
          /\ Payout(m).tax = 70000
          /\ Payout(m).rest = 911

-----------------------------------------------------------------------------
\* every column of the returned series is zero in each of the months of the horizon
AllZeroSeries ==
    /\ frame.Month = [m \in Months |-> m]
    /\ \A c \in RSUColumns : frame[c] = [m \in Months |-> 0]

\* the arguments with the vesting period cut down to whole quarters, 3k for 3k + r
WholeQuarterArgs == [args EXCEPT !.vesting_period_months = 3 * (@ \div 3)]

\* the arguments with a horizon long enough for every payout month
LongHorizonArgs ==
    [args EXCEPT !.stock_prices = @ \o [m \in 1..MaxHorizonMonths |-> 4000]]

\* the returned series is the first Len(stock_prices) months of the series s
IsPrefixOf(s) ==
    \A c \in RSUColumns :
        /\ DOMAIN frame[c] = Months
        /\ \A m \in Months : frame[c][m] = s[c][m]

\* the stocks of the payouts that the series s records after month n
RECURSIVE VestedAfter(_, _)
VestedAfter(s, n) ==
    IF n >= Len(s.RSU_Stocks_Vested) THEN 0
    ELSE s.RSU_Stocks_Vested[n + 1] + VestedAfter(s, n + 1)

\* C12: the call always returns; a vesting period below 3 (zero and negative ones
\* included) gives the all-zero series over the horizon; a vesting period 3k + r,
\* r in {1, 2}, gives the series of the vesting period 3k; and the series over a
\* horizon is the series over a longer horizon cut at the horizon: payouts after it
\* are not recorded, those within it are recorded unchanged.
C12_EdgeCases ==
    /\ (pc \in {"rsu_call", "rsu_quarters"}) => ENABLED NextRSU
    /\ RSUDone =>
          /\ args.vesting_period_months < 3 => AllZeroSeries
          /\ args.vesting_period_months % 3 # 0 =>
                frame = calculate_rsu_vesting(WholeQuarterArgs)
          /\ IsPrefixOf(calculate_rsu_vesting(LongHorizonArgs))

\* C12 witness: a block of 13 months starting at month 4 over a horizon of 12 months:
\* the payouts of months 7 and 10 are recorded, those of months 13 and 16 are not.
C12_Witness ==
    /\ RSUDone
    /\ args.vesting_period_months = 13
    /\ args.start_offset = 4
    /\ args.delay_months = 0
    /\ args.total_stocks = 480
    /\ Len(args.stock_prices) = 12
    /\ Vested(7) = 120
    /\ Vested(10) = 120
    /\ VestedAfter(frame, 0) = 240
    /\ VestedAfter(calculate_rsu_vesting(LongHorizonArgs), 12) = 240

-----------------------------------------------------------------------------
(* src/pages/stock_estimator.py: main, the RSU blocks merged into one series *)

\* lines 959-969: the arguments of calculate_rsu_vesting for one entry of rsu_blocks_data
BlockArgs(block_data, a) ==
    [total_stocks          |-> block_data.total_stocks,
     vesting_period_months |-> block_data.vest_months,
     stock_prices          |-> a.stock_prices,
     start_offset          |-> block_data.start_offset,
     delay_months          |-> block_data.delay_months,
     usd_to_eur            |-> a.usd_to_eur,
     transaction_fee_usd   |-> a.transaction_fee_usd,
     selling_loss_usd      |-> a.selling_loss_usd]

\* mutant: the cumulative columns of the further blocks are not added
AddSeriesNoCumulative(rsu_df, df) ==
    [c \in DOMAIN rsu_df |->
        IF c \in {"RSU_Stocks_Vested", "RSU_Stocks_Sold", "RSU_Stocks_Kept", "RSU_Tax_Due",
                  "RSU_Sale_Proceeds", "RSU_Transaction_Fee", "RSU_Rest_Amount", "RSU_Value"}
        THEN [m \in DOMAIN rsu_df[c] |-> rsu_df[c][m] + df[c][m]]
        ELSE rsu_df[c]]

\* lines 975-985: rsu_df[column] += df[column] for the eleven RSU columns
AddSeries(rsu_df, df) ==
    [c \in DOMAIN rsu_df |->
        IF c \in RSUColumns
        THEN [m \in DOMAIN rsu_df[c] |-> rsu_df[c][m] + df[c][m]]
        ELSE rsu_df[c]]

\* lines 690, 786-795: only the blocks that are not hidden enter rsu_blocks_data
MergeCollect ==
    /\ pc = "merge_call"
    /\ loc' = [rsu_blocks_data |-> SelectSeq(args.rsu_blocks, LAMBDA block : ~block.hidden),
               rsu_dfs |-> << >>,
               next |-> 1]
    /\ pc' = "merge_blocks"
    /\ UNCHANGED <<args, cols, frame>>

\* lines 958-970: the series of the next block is computed and appended to rsu_dfs
MergeBlock ==
    /\ pc = "merge_blocks"
    /\ Len(loc.rsu_dfs) < Len(loc.rsu_blocks_data)
    /\ loc' = [loc EXCEPT !.rsu_dfs =
                  Append(@, calculate_rsu_vesting(
                                BlockArgs(loc.rsu_blocks_data[Len(loc.rsu_dfs) + 1], args)))]
    /\ UNCHANGED <<args, pc, cols, frame>>

\* lines 973-974 and 986-1000: rsu_df starts as a copy of the first series, or as the
\* zero series when there is no block
MergeFirst ==
    /\ pc = "merge_blocks"
    /\ Len(loc.rsu_dfs) = Len(loc.rsu_blocks_data)
    /\ IF loc.rsu_dfs # << >>
       THEN /\ cols' = loc.rsu_dfs[1]
            /\ loc' = [loc EXCEPT !.next = 2]
       ELSE /\ cols' = ZeroData(Len(args.stock_prices))
            /\ loc' = [loc EXCEPT !.next = 1]
    /\ pc' = "merge_combine"
    /\ UNCHANGED <<args, frame>>

\* lines 975-985: one iteration of `for df in rsu_dfs[1:]`
MergeAdd ==
    /\ pc = "merge_combine"
    /\ loc.next <= Len(loc.rsu_dfs)
    /\ cols' = AddSeries(cols, loc.rsu_dfs[loc.next])
    /\ loc' = [loc EXCEPT !.next = @ + 1]
    /\ UNCHANGED <<args, pc, frame>>

\* the merged rsu_df is complete
MergeDone ==
    /\ pc = "merge_combine"
    /\ loc.next > Len(loc.rsu_dfs)
    /\ frame' = cols
    /\ pc' = "merge_done"
    /\ UNCHANGED <<args, loc, cols>>

\* most blocks of a session
MaxBlocks == 2

\* the blocks of a session: the cliff block, a block with a remainder, a single payout
RSUBlocks ==
    {[total_stocks |-> b[1], vest_months |-> b[2], start_offset |-> b[3],
      delay_months |-> b[4], hidden |-> h] :
        b \in {<<480, 48, 2, 12>>, <<7, 12, 0, 0>>, <<35, 3, 4, 0>>}, h \in BOOLEAN}

MergeInputs ==
    {[rsu_blocks          |-> blocks,
      stock_prices        |-> prices,
      usd_to_eur          |-> fx,
      transaction_fee_usd |-> 999,
      selling_loss_usd    |-> 5] :
        blocks \in UNION {[1..n -> RSUBlocks] : n \in 0..MaxBlocks},
        prices \in UNION {PricePaths(months) : months \in Horizons},
        fx \in FxRates}

InitMerge ==
    /\ args \in MergeInputs
    /\ pc = "merge_call"
    /\ loc = [next |-> 1]
    /\ cols = << >>
    /\ frame = << >>

NextMerge == MergeCollect \/ MergeBlock \/ MergeFirst \/ MergeAdd \/ MergeDone

SpecMerge == InitMerge /\ [][NextMerge]_vars

-----------------------------------------------------------------------------
(* Claims about the merged RSU series *)

\* the blocks that are not hidden
ShownBlocks == SelectSeq(args.rsu_blocks, LAMBDA block : ~block.hidden)

RECURSIVE SeriesOfBlocks(_)
\* the series each of `blocks` produces on its own
SeriesOfBlocks(blocks) ==
    IF blocks = << >> THEN << >>
    ELSE << calculate_rsu_vesting(BlockArgs(Head(blocks), args)) >>
            \o SeriesOfBlocks(Tail(blocks))

RECURSIVE SumAt(_, _, _)
\* column c at month m summed over the series of `dfs`
SumAt(dfs, c, m) ==
    IF dfs = << >> THEN 0 ELSE Head(dfs)[c][m] + SumAt(Tail(dfs), c, m)

\* C13: the merged series is, column by column and month by month, the sum of the
\* series of the blocks that are not hidden; its RSU_Cumulative_Stocks is the running
\* sum of its RSU_Stocks_Kept and its RSU_Cumulative_Rest that of its RSU_Rest_Amount.
C13_MergedSeries ==
    pc = "merge_done" =>
        LET own == SeriesOfBlocks(ShownBlocks) IN
        /\ \A c \in RSUColumns : \A m \in Months : frame[c][m] = SumAt(own, c, m)
        /\ \A m \in Months :
              /\ frame.RSU_Cumulative_Stocks[m] = RunningSum(frame.RSU_Stocks_Kept, m)
              /\ frame.RSU_Cumulative_Rest[m] = RunningSum(frame.RSU_Rest_Amount, m)

\* C13 witness: the cliff block and the single payout of 35 stocks, both shown, over 52
\* months: 35 stocks vest at month 7, 150 at month 17, and 17 + 74 + 11 * 14 stocks
\* are kept in the end.
C13_Witness ==
    /\ pc = "merge_done"
    /\ Len(args.rsu_blocks) = 2
    /\ Len(ShownBlocks) = 2
    /\ args.rsu_blocks[1].total_stocks = 480
    /\ args.rsu_blocks[2].total_stocks = 35
    /\ Len(args.stock_prices) = 52
    /\ frame.RSU_Stocks_Vested[7] = 35
    /\ frame.RSU_Stocks_Vested[17] = 150
    /\ frame.RSU_Cumulative_Stocks[52] = 17 + 74 + 11 * 14

-----------------------------------------------------------------------------
(* src/mortgage.py as a state machine: the payment of a loan, then its schedule *)
(* row by row.  args holds the loan terms, loc the locals of calculate_amortization, *)
(* cols the rows appended so far and frame the returned schedule.                    *)

\* calculate_mortgage is called with the terms of the loan (lines 4-45)
LoanPayment ==
    /\ pc = "loan_call"
    /\ loc' = [payment |-> calculate_mortgage(args.principal, args.annual_interest_rate,
                                              args.years, args.down_payment)]
    /\ pc' = "amort_call"
    /\ UNCHANGED <<args, cols, frame>>

\* lines 75-85: the early return, the monthly rate, the payment and the first balance
AmortSetup ==
    /\ pc = "amort_call"
    /\ IF args.principal <= args.down_payment
       THEN /\ frame' = << >>
            /\ pc' = "amort_done"
            /\ UNCHANGED <<loc, cols>>
       ELSE LET principal == args.principal - args.down_payment IN
            /\ loc' = [payment         |-> loc.payment,
                       principal       |-> principal,
                       monthly_rate    |-> MonthlyRate(args.annual_interest_rate),
                       num_payments    |-> args.years * 12,
                       monthly_payment |-> calculate_mortgage(principal,
                                              args.annual_interest_rate, args.years, 0),
                       balance         |-> principal,
                       month           |-> 1]
            /\ cols' = << >>
            /\ pc' = "amort_loop"
            /\ UNCHANGED frame
    /\ UNCHANGED args

\* mutant: the loop does not break when the balance is cleared
AmortMonthNoBreak ==
    /\ pc = "amort_loop"
    /\ loc.month <= loc.num_payments
    /\ LET row == AmortRow(loc.month, loc.balance, loc.monthly_rate,
                           loc.monthly_payment, args.extra_payment)
       IN  /\ cols' = Append(cols, row)
           /\ loc' = [loc EXCEPT !.balance = row.balance, !.month = @ + 1]
    /\ UNCHANGED <<args, pc, frame>>

\* lines 87-107: one iteration of the loop; the break leaves the loop
AmortMonth ==
    /\ pc = "amort_loop"
    /\ loc.month <= loc.num_payments
    /\ LET row == AmortRow(loc.month, loc.balance, loc.monthly_rate,
                           loc.monthly_payment, args.extra_payment)
       IN  /\ cols' = Append(cols, row)
           /\ loc' = [loc EXCEPT !.balance = row.balance,
                                 !.month = IF row.balance <= 0
                                           THEN loc.num_payments + 1 ELSE @ + 1]
    /\ UNCHANGED <<args, pc, frame>>

\* line 109: the schedule is returned
AmortReturn ==
    /\ pc = "amort_loop"
    /\ loc.month > loc.num_payments
    /\ frame' = cols
    /\ pc' = "amort_done"
    /\ UNCHANGED <<args, loc, cols>>

\* extra_payment, the additional monthly payment towards the principal
ExtraPayments == {0, 1, 5, 200}

\* property value and down payment of the loans, with the effective principals 0, -12,
\* 24, 144, 4095 and 8190
LoanAmounts ==
    {<<0, 0>>, <<12, 12>>, <<48, 60>>, <<24, 0>>, <<36, 12>>, <<144, 0>>, <<156, 12>>,
     <<4095, 0>>, <<4107, 12>>, <<8190, 0>>}

\* the loan terms: zero rate, or 100 percent a month over one year
LoanInputs ==
    {a \in [principal            : {pd[1] : pd \in LoanAmounts},
            down_payment         : {pd[2] : pd \in LoanAmounts},
            annual_interest_rate : {0, 1200},
            years                : -1..MaxMortgageYears,
            extra_payment        : ExtraPayments] :
        /\ <<a.principal, a.down_payment>> \in LoanAmounts
        /\ a.annual_interest_rate # 0 => a.years <= 1
        /\ PaymentIsExact(a.principal, a.annual_interest_rate, a.years, a.down_payment)}

InitLoan ==
    /\ args \in LoanInputs
    /\ pc = "loan_call"
    /\ loc = [payment |-> 0]
    /\ cols = << >>
    /\ frame = << >>

NextLoan == LoanPayment \/ AmortSetup \/ AmortMonth \/ AmortReturn

SpecLoan == InitLoan /\ [][NextLoan]_vars

-----------------------------------------------------------------------------
(* Claims about calculate_mortgage and calculate_amortization *)

AmortDone == pc = "amort_done"

\* the effective principal of the loan
EffectivePrincipal == args.principal - args.down_payment

\* the Remaining Balance before row i of the returned schedule
BalanceBefore(i) == IF i = 1 THEN EffectivePrincipal ELSE frame[i - 1].RemainingBalance

\* C14: for a loan with positive effective principal over at least one year the rows
\* are numbered 1, 2, ... without gaps and are at most years * 12; the Remaining
\* Balance is never negative and never above that of the row before, the principal
\* portion being at most the balance before the row; the last row's Remaining Balance
\* is (below 1.0 from) zero.
C14_Schedule ==
    (AmortDone /\ EffectivePrincipal > 0 /\ args.years >= 1) =>
        /\ Len(frame) >= 1
        /\ Len(frame) <= args.years * 12
        /\ \A i \in 1..Len(frame) :
              /\ frame[i].Month = i
              /\ frame[i].RemainingBalance >= 0
              /\ frame[i].RemainingBalance <= BalanceBefore(i)
              /\ frame[i].PrincipalPayment <= BalanceBefore(i)
        /\ frame[Len(frame)].RemainingBalance < 1

\* C14 witness: 144 at zero rate over one year with 5 extra a month: 17 a month for
\* eight months, and a ninth row whose principal portion is capped at the remaining 8.
C14_Witness ==
    /\ AmortDone
    /\ EffectivePrincipal = 144
    /\ args.annual_interest_rate = 0
    /\ args.years = 1
    /\ args.extra_payment = 5
    /\ Len(frame) = 9
    /\ frame[8].RemainingBalance = 8
    /\ frame[9].PrincipalPayment = 8
    /\ frame[9].RemainingBalance = 0

-----------------------------------------------------------------------------
\* C15: when the down payment is at least the property value, calculate_mortgage
\* returns 0, calculate_amortization returns the empty schedule, and every row of the
\* net-worth projection with these terms has Mortgage Balance 0.
C15_DownPaymentCoversValue ==
    (Done /\ args.down_payment >= args.property_value) =>
        /\ loc.monthly_payment = 0
        /\ loc.amort = << >>
        /\ \A i \in Rows : frame[i].MortgageBalance = 0

\* C15 witness: a property of 48 with a down payment of 60 at 1200 percent, projected
\* over a year: thirteen rows, no payment, no schedule, no mortgage balance.
C15_Witness ==
    /\ Done
    /\ args.property_value = 48
    /\ args.down_payment = 60
    /\ args.mortgage_rate = 1200
    /\ Len(frame) = 13
    /\ loc.monthly_payment = 0
    /\ loc.amort = << >>
    /\ frame[1].MortgageBalance = 0
    /\ frame[13].MortgageBalance = 0

-----------------------------------------------------------------------------
\* C16: at annual rate 0, with positive effective principal P over years >= 1,
\* calculate_mortgage returns exactly P / (years * 12) and every row of the schedule
\* has Interest Payment 0.
C16_ZeroRate ==
    ( /\ AmortDone
      /\ args.annual_interest_rate = 0
      /\ EffectivePrincipal > 0
      /\ args.years >= 1 ) =>
        /\ loc.payment * (args.years * 12) = EffectivePrincipal
        /\ loc.monthly_payment = loc.payment
        /\ \A i \in 1..Len(frame) : frame[i].InterestPayment = 0

\* C16 witness: 144 (156 less 12 down) at zero rate over two years: 6 a month, 24 rows
\* without interest.
C16_Witness ==
    /\ AmortDone
    /\ args.annual_interest_rate = 0
    /\ args.principal = 156
    /\ args.down_payment = 12
    /\ args.years = 2
    /\ args.extra_payment = 0
    /\ loc.payment = 6
    /\ Len(frame) = 24
    /\ \A i \in 1..24 : frame[i].InterestPayment = 0 /\ frame[i].TotalPayment = 6

-----------------------------------------------------------------------------
\* the schedule of the same loan without extra payment
RegularSchedule ==
    calculate_amortization(args.principal, args.annual_interest_rate, args.years,
                           args.down_payment, 0)

\* the extra payments of all months but the last regular one cover the principal
\* portion of the last regular month: the balance is cleared a month early at least
ClearsEarly(regular) ==
    /\ Len(regular) >= 2
    /\ args.extra_payment * (Len(regular) - 1) >= regular[Len(regular)].PrincipalPayment

\* C17: the schedule ends with the first row whose balance is <= 0; with an extra
\* payment it is never longer than the schedule of the same loan without, and shorter
\* when the extra payment clears the balance at least a month early.
C17_EarlyStop ==
    /\ pc = "amort_loop" =>
          \A i \in 1..Len(cols) : cols[i].balance <= 0 => i = Len(cols)
    /\ AmortDone =>
          LET regular == RegularSchedule IN
          /\ \A i \in 1..Len(frame) : frame[i].balance <= 0 => i = Len(frame)
          /\ args.extra_payment > 0 =>
                /\ Len(frame) <= Len(regular)
                /\ ClearsEarly(regular) => Len(frame) < Len(regular)

\* C17 witness: 4095 at 1200 percent over one year takes 12 rows; with 200 extra a
\* month the balance is cleared in the fifth row, which is the last.
C17_Witness ==
    /\ AmortDone
    /\ EffectivePrincipal = 4095
    /\ args.annual_interest_rate = 1200
    /\ args.extra_payment = 200
    /\ Len(RegularSchedule) = 12
    /\ ClearsEarly(RegularSchedule)
    /\ Len(frame) = 5
    /\ frame[4].balance = 1080
    /\ frame[5].balance = 0

-----------------------------------------------------------------------------
\* C18: for a loan over years <= 0 calculate_mortgage returns 0 and
\* calculate_amortization the empty schedule; calculate_net_worth over a horizon of 0
\* years returns the row of month 0 alone.
C18_Degenerate ==
    Done =>
        /\ args.mortgage_years <= 0 =>
              /\ loc.monthly_payment = 0
              /\ loc.amort = << >>
        /\ args.years = 0 =>
              /\ Len(frame) = 1
              /\ frame[1].Month = 0

\* C18 witness: a loan of 4095 at 1200 percent over 0 years in a projection over 0
\* years: no payment, no schedule, one row, with the whole principal as balance.
C18_Witness ==
    /\ Done
    /\ args.property_value = 4107
    /\ args.down_payment = 12
    /\ args.mortgage_rate = 1200
    /\ args.mortgage_years = 0
    /\ args.years = 0
    /\ loc.monthly_payment = 0
    /\ loc.amort = << >>
    /\ Len(frame) = 1
    /\ frame[1].MortgageBalance = 4095

-----------------------------------------------------------------------------
(* calculate_property_from_payment, the inverse of calculate_mortgage.  Its body is *)
(* not among the sources; it is taken from the specification of the solver:         *)
(* P = M * ((1 + r)^n - 1) / (r * (1 + r)^n), at zero rate P = M * n, and the        *)
(* property value is P + down_payment.                                               *)

\* mutant: the down payment is not added to the principal solved for
calculate_property_from_payment_bare(target_payment, annual_interest_rate, years, down_payment) ==
    IF annual_interest_rate = 0
    THEN target_payment * (years * 12)
    ELSE LET monthly_rate == MonthlyRate(annual_interest_rate)
             growth       == Pow(1 + monthly_rate, years * 12)
         IN  (target_payment * (growth - 1)) \div (monthly_rate * growth)

calculate_property_from_payment(target_payment, annual_interest_rate, years, down_payment) ==
    IF annual_interest_rate = 0
    THEN target_payment * (years * 12) + down_payment
    ELSE LET monthly_rate == MonthlyRate(annual_interest_rate)
             growth       == Pow(1 + monthly_rate, years * 12)
         IN  (target_payment * (growth - 1)) \div (monthly_rate * growth) + down_payment

\* whether the principal solved for is an integer (no rounding)
PropertyIsExact(target_payment, annual_interest_rate, years) ==
    \/ annual_interest_rate = 0
    \/ LET monthly_rate == MonthlyRate(annual_interest_rate)
           growth       == Pow(1 + monthly_rate, years * 12)
       IN  (target_payment * (growth - 1)) % (monthly_rate * growth) = 0

\* the payment of the loan terms is computed
SolverPayment ==
    /\ pc = "solver_call"
    /\ loc' = [payment |-> calculate_mortgage(args.property_value, args.annual_interest_rate,
                                              args.years, args.down_payment)]
    /\ pc' = "solver_payment"
    /\ UNCHANGED <<args, cols, frame>>

\* the property value is recovered from that payment
SolverRecover ==
    /\ pc = "solver_payment"
    /\ loc' = [payment |-> loc.payment,
               recovered_property |->
                   calculate_property_from_payment(loc.payment, args.annual_interest_rate,
                                                   args.years, args.down_payment)]
    /\ pc' = "solver_recovered"
    /\ UNCHANGED <<args, cols, frame>>

\* the property value for the target payment 0 is solved for
SolverZero ==
    /\ pc = "solver_recovered"
    /\ loc' = [payment |-> loc.payment,
               recovered_property |-> loc.recovered_property,
               zero_payment_property |->
                   calculate_property_from_payment(0, args.annual_interest_rate,
                                                   args.years, args.down_payment)]
    /\ pc' = "solver_zero"
    /\ UNCHANGED <<args, cols, frame>>

\* the payment is edited: the property value that meets it is solved for
SolverEdit ==
    /\ pc = "solver_zero"
    /\ loc' = [payment |-> loc.payment,
               recovered_property |-> loc.recovered_property,
               zero_payment_property |-> loc.zero_payment_property,
               new_property_value |->
                   calculate_property_from_payment(args.edited_payment,
                       args.annual_interest_rate, args.years, args.down_payment)]
    /\ pc' = "solver_edited"
    /\ UNCHANGED <<args, cols, frame>>

\* the payment of the new property value is computed
SolverVerify ==
    /\ pc = "solver_edited"
    /\ frame' = [payment               |-> loc.payment,
                 recovered_property    |-> loc.recovered_property,
                 zero_payment_property |-> loc.zero_payment_property,
                 new_property_value    |-> loc.new_property_value,
                 verify_payment        |->
                     calculate_mortgage(loc.new_property_value, args.annual_interest_rate,
                                        args.years, args.down_payment)]
    /\ pc' = "solver_done"
    /\ UNCHANGED <<args, loc, cols>>

\* the target payments typed in
EditedPayments == {0, 1, 12, 4096, 8192}

SolverInputs ==
    {a \in [property_value       : {pd[1] : pd \in LoanAmounts},
            down_payment         : {pd[2] : pd \in LoanAmounts},
            annual_interest_rate : {0, 1200},
            years                : 0..MaxMortgageYears,
            edited_payment       : EditedPayments] :
        /\ <<a.property_value, a.down_payment>> \in LoanAmounts
        /\ a.annual_interest_rate # 0 => a.years <= 1
        /\ PaymentIsExact(a.property_value, a.annual_interest_rate, a.years, a.down_payment)
        /\ PropertyIsExact(a.edited_payment, a.annual_interest_rate, a.years)}

InitSolver ==
    /\ args \in SolverInputs
    /\ pc = "solver_call"
    /\ loc = [payment |-> 0]
    /\ cols = << >>
    /\ frame = << >>

NextSolver == SolverPayment \/ SolverRecover \/ SolverZero \/ SolverEdit \/ SolverVerify

SpecSolver == InitSolver /\ [][NextSolver]_vars

-----------------------------------------------------------------------------
(* Claims about calculate_property_from_payment *)

SolverDone == pc = "solver_done"

C20_ZeroCases ==
    SolverDone =>
        /\ frame.zero_payment_property = args.down_payment
        /\ args.edited_payment = 0 => frame.new_property_value = args.down_payment
        /\ args.annual_interest_rate = 0 =>
              /\ frame.new_property_value =
                    args.edited_payment * args.years * 12 + args.down_payment
              /\ frame.recovered_property =
                    frame.payment * args.years * 12 + args.down_payment

\* C20 witness: with 12 down over two years at zero rate the target payment 0 gives
\* 12 and the target payment 12 gives 12 * 24 + 12 = 300.
C20_Witness ==
    /\ SolverDone
    /\ args.down_payment = 12
    /\ args.annual_interest_rate = 0
    /\ args.years = 2
    /\ args.edited_payment = 12
    /\ frame.zero_payment_property = 12
    /\ frame.new_property_value = 300

-----------------------------------------------------------------------------
(* src/pages/stock_estimator.py: calculate_espp_vesting *)
(* The loop variable month is 0-based as in the code; the entry of month m of a     *)
(* column is its element m + 1.  contribution_percent and discount_rate are          *)
(* fractions <<num, den>>.                                                           *)

ESPPColumns ==
    {"ESPP_Contribution", "ESPP_Stocks_Bought", "ESPP_Value",
     "ESPP_Cumulative_Stocks", "ESPP_Cumulative_Value"}

\* lines 386-394: the all-zero data of `months` months
ESPPZeroData(months) ==
    [c \in ESPPColumns \cup {"Month"} |->
        IF c = "Month" THEN [m \in 1..months |-> m] ELSE [m \in 1..months |-> 0]]

\* mutant: the purchases are counted from month 0, not from start_offset
IsVestingMonthFromZero(month, start_offset, vesting_interval_months) ==
    (month + 1) % vesting_interval_months = 0 /\ month + 1 > 0

\* lines 408-409: whether the month `month` >= start_offset is a vesting month
IsVestingMonth(month, start_offset, vesting_interval_months) ==
    LET months_since_start == month - start_offset + 1
    IN  months_since_start % vesting_interval_months = 0 /\ months_since_start > 0

\* mutant: the discount is taken off the current price, without the lookback
BuyPriceNoLookback(period_start_price, current_price, discount_rate) ==
    Times(current_price, OneMinus(discount_rate))

\* line 412: min(period_start_price, current_price) * (1 - discount_rate)
BuyPrice(period_start_price, current_price, discount_rate) ==
    Times(IF period_start_price <= current_price THEN period_start_price ELSE current_price,
          OneMinus(discount_rate))

\* line 413: accumulated_contribution / buy_price if buy_price > 0 else 0
StocksBought(accumulated_contribution, buy_price) ==
    IF buy_price > 0 THEN accumulated_contribution \div buy_price ELSE 0

\* lines 386-399: the zero data and the locals before the loop
ESPPSetup ==
    /\ pc = "espp_call"
    /\ LET months == Len(args.stock_prices) IN
       /\ cols' = ESPPZeroData(months)
       /\ loc' = [months |-> months,
                  monthly_contribution |-> Times(args.gross_income, args.contribution_percent),
                  cumulative_stocks |-> 0,
                  accumulated_contribution |-> 0,
                  period_start_price |-> IF args.start_offset < months
                                         THEN args.stock_prices[args.start_offset + 1]
                                         ELSE 0,
                  month |-> 0]
    /\ pc' = "espp_loop"
    /\ UNCHANGED <<args, frame>>

\* lines 401-422: one iteration of the loop, for month = loc.month
ESPPMonth ==
    /\ pc = "espp_loop"
    /\ loc.month < loc.months
    /\ LET month         == loc.month
           at            == month + 1
           contributes   == month >= args.start_offset
           accumulated   == IF contributes
                            THEN loc.accumulated_contribution + loc.monthly_contribution
                            ELSE loc.accumulated_contribution
           vests         == /\ contributes
                            /\ IsVestingMonth(month, args.start_offset,
                                              args.vesting_interval_months)
           current_price == args.stock_prices[at]
           buy_price     == BuyPrice(loc.period_start_price, current_price,
                                     args.discount_rate)
           stocks_bought == IF vests THEN StocksBought(accumulated, buy_price) ELSE 0
           cumulative_stocks == loc.cumulative_stocks + stocks_bought
       IN  /\ cols' = [cols EXCEPT
                          !.ESPP_Contribution[at] =
                              IF contributes THEN loc.monthly_contribution ELSE @,
                          !.ESPP_Stocks_Bought[at] = IF vests THEN stocks_bought ELSE @,
                          !.ESPP_Value[at] =
                              IF vests THEN stocks_bought * current_price ELSE @,
                          !.ESPP_Cumulative_Stocks[at] = cumulative_stocks,
                          !.ESPP_Cumulative_Value[at] = cumulative_stocks * current_price]
           /\ loc' = [loc EXCEPT
                          !.accumulated_contribution = IF vests THEN 0 ELSE accumulated,
                          !.period_start_price = IF vests THEN current_price ELSE @,
                          !.cumulative_stocks = cumulative_stocks,
                          !.month = month + 1]
    /\ UNCHANGED <<args, pc, frame>>

\* line 424: the DataFrame is returned
ESPPReturn ==
    /\ pc = "espp_loop"
    /\ loc.month >= loc.months
    /\ frame' = cols
    /\ pc' = "espp_done"
    /\ UNCHANGED <<args, loc, cols>>

\* longest horizon of the ESPP and self-buying projections, len(stock_prices)
MaxStockMonths == 12

\* price paths with both orders of period start and current price, and one with
\* prices that are zero or negative
LookbackPaths(months) ==
    {[m \in 1..months |-> 40],
     [m \in 1..months |-> IF m % 4 < 2 THEN 40 ELSE 80],
     [m \in 1..months |-> IF m % 3 = 0 THEN 0 ELSE IF m % 3 = 1 THEN 40 ELSE -40]}

ESPPInputs ==
    [gross_income            : {0, 800},
     contribution_percent    : {<<1, 10>>, <<3, 10>>},
     stock_prices            : UNION {LookbackPaths(months) : months \in {5, MaxStockMonths}},
     discount_rate           : {<<0, 1>>, <<1, 2>>, <<1, 1>>},
     vesting_interval_months : {1, 3, 6},
     start_offset            : {0, 1, 2, MaxStockMonths}]

InitESPP ==
    /\ args \in ESPPInputs
    /\ pc = "espp_call"
    /\ loc = [months |-> 0]
    /\ cols = << >>
    /\ frame = << >>

NextESPP == ESPPSetup \/ ESPPMonth \/ ESPPReturn

SpecESPP == InitESPP /\ [][NextESPP]_vars

-----------------------------------------------------------------------------
(* Claims about calculate_espp_vesting *)

ESPPDone == pc = "espp_done"

\* gross_income * contribution_percent
Contribution == Times(args.gross_income, args.contribution_percent)

\* the 0-based months of the horizon, and those in which a purchase is due
ESPPMonths == 0..(Len(args.stock_prices) - 1)

PurchaseDue(m) ==
    m >= args.start_offset /\ (m - args.start_offset + 1) % args.vesting_interval_months = 0

\* the contribution that has accrued since the last purchase, or since start_offset,
\* when the months before month k are done
AccruedBefore(k) ==
    IF k <= args.start_offset THEN 0
    ELSE Contribution * ((k - args.start_offset) % args.vesting_interval_months)

\* C21: no contribution and no purchase is recorded before start_offset; from
\* start_offset on every month records gross_income * contribution_percent; a
\* purchase is made in exactly the months m >= start_offset with m - start_offset + 1
\* a multiple of vesting_interval_months; the cumulative stocks and value are written
\* in every month.
C21_Cycle ==
    /\ pc = "espp_loop" =>
          /\ loc.accumulated_contribution = AccruedBefore(loc.month)
          /\ \A m \in ESPPMonths :
                m < loc.month =>
                    cols.ESPP_Cumulative_Stocks[m + 1] =
                        RunningSum(cols.ESPP_Stocks_Bought, m + 1)
    /\ ESPPDone =>
          \A m \in ESPPMonths :
              /\ m < args.start_offset =>
                    /\ frame.ESPP_Contribution[m + 1] = 0
                    /\ frame.ESPP_Stocks_Bought[m + 1] = 0
                    /\ frame.ESPP_Value[m + 1] = 0
              /\ m >= args.start_offset => frame.ESPP_Contribution[m + 1] = Contribution
              /\ ~PurchaseDue(m) =>
                    /\ frame.ESPP_Stocks_Bought[m + 1] = 0
                    /\ frame.ESPP_Value[m + 1] = 0
              /\ ( /\ PurchaseDue(m)
                   /\ Contribution > 0
                   /\ \A k \in ESPPMonths : args.stock_prices[k + 1] > 0
                   /\ args.discount_rate # <<1, 1>> ) =>
                    frame.ESPP_Stocks_Bought[m + 1] > 0
              /\ frame.ESPP_Cumulative_Stocks[m + 1] =
                    RunningSum(frame.ESPP_Stocks_Bought, m + 1)
              /\ frame.ESPP_Cumulative_Value[m + 1] =
                    RunningSum(frame.ESPP_Stocks_Bought, m + 1) * args.stock_prices[m + 1]

\* C21 witness: 80 a month from month 2 on, a purchase every 3 months at half of 40:
\* 12 stocks are bought in the months 4, 7 and 10 and none in month 11, where the
\* cumulative 36 stocks are still recorded.
C21_Witness ==
    /\ ESPPDone
    /\ Contribution = 80
    /\ args.start_offset = 2
    /\ args.vesting_interval_months = 3
    /\ args.discount_rate = <<1, 2>>
    /\ Len(args.stock_prices) = MaxStockMonths
    /\ \A m \in ESPPMonths : args.stock_prices[m + 1] = 40
    /\ frame.ESPP_Contribution[2] = 0
    /\ frame.ESPP_Contribution[3] = 80
    /\ frame.ESPP_Stocks_Bought[5] = 12
    /\ frame.ESPP_Stocks_Bought[8] = 12
    /\ frame.ESPP_Stocks_Bought[11] = 12
    /\ frame.ESPP_Stocks_Bought[12] = 0
    /\ frame.ESPP_Cumulative_Stocks[12] = 36

-----------------------------------------------------------------------------
\* the last month before month k in which a purchase was due, -1 if there is none
RECURSIVE LastPurchaseBefore(_)
LastPurchaseBefore(k) ==
    IF k <= 0 THEN -1
    ELSE IF PurchaseDue(k - 1) THEN k - 1 ELSE LastPurchaseBefore(k - 1)

\* the start price of the window that is open at month k: the price of the last
\* purchase month, and for the first window the price at start_offset
WindowStartPrice(k) ==
    IF LastPurchaseBefore(k) >= 0 THEN args.stock_prices[LastPurchaseBefore(k) + 1]
    ELSE IF args.start_offset < Len(args.stock_prices)
         THEN args.stock_prices[args.start_offset + 1]
         ELSE 0

\* min(period start price, current price) * (1 - discount_rate) at the purchase of month m
ExpectedBuyPrice(m) ==
    Times(Min(WindowStartPrice(m), args.stock_prices[m + 1]), OneMinus(args.discount_rate))

\* the contribution accumulated since the previous purchase at the purchase of month m
AccruedAt(m) == AccruedBefore(m) + Contribution

\* C22: at every purchase the buy price is min(period start price, current price) *
\* (1 - discount_rate), the period start price being the price at start_offset in the
\* first window and the price of the previous purchase month afterwards; the stocks
\* bought are the contribution accumulated since the previous purchase divided by the
\* buy price, and 0 if the buy price is <= 0; after the purchase the accumulated
\* contribution is 0 and the period start price is the current price.
C22_Purchase ==
    /\ pc = "espp_loop" =>
          /\ loc.period_start_price = WindowStartPrice(loc.month)
          /\ (loc.month > 0 /\ PurchaseDue(loc.month - 1)) =>
                /\ loc.accumulated_contribution = 0
                /\ loc.period_start_price = args.stock_prices[loc.month]
    /\ ESPPDone =>
          \A m \in ESPPMonths :
              PurchaseDue(m) =>
                  /\ ExpectedBuyPrice(m) > 0 =>
                        /\ frame.ESPP_Stocks_Bought[m + 1] * ExpectedBuyPrice(m) = AccruedAt(m)
                        /\ AccruedAt(m) = Contribution * args.vesting_interval_months
                  /\ ExpectedBuyPrice(m) <= 0 => frame.ESPP_Stocks_Bought[m + 1] = 0
                  /\ frame.ESPP_Value[m + 1] =
                        frame.ESPP_Stocks_Bought[m + 1] * args.stock_prices[m + 1]

\* C22 witness: 80 a month from month 1 on, a purchase every 3 months without discount
\* on the path 40, 80, 80, 40, 40, 80, 80, ...: in month 3 the window started at 80 and
\* the price is 40; in month 6 the window started at 40 and the price is 80; both
\* times 240 buy 6 stocks at 40.
C22_Witness ==
    /\ ESPPDone
    /\ Contribution = 80
    /\ args.start_offset = 1
    /\ args.vesting_interval_months = 3
    /\ args.discount_rate = <<0, 1>>
    /\ Len(args.stock_prices) = MaxStockMonths
    /\ WindowStartPrice(3) = 80
    /\ args.stock_prices[4] = 40
    /\ frame.ESPP_Stocks_Bought[4] = 6
    /\ WindowStartPrice(6) = 40
    /\ args.stock_prices[7] = 80
    /\ frame.ESPP_Stocks_Bought[7] = 6
    /\ frame.ESPP_Value[7] = 480

-----------------------------------------------------------------------------
(* src/pages/stock_estimator.py: calculate_self_buying *)

SelfColumns ==
    {"Self_Investment", "Self_Stocks_Bought", "Self_Value",
     "Self_Cumulative_Stocks", "Self_Cumulative_Value"}

\* mutant: the percentage mode is ignored
MonthlyInvestmentFlat(net_income, investment_amount, is_percentage) == investment_amount

\* lines 461-464: the monthly investment, a percentage of the net income or an amount
MonthlyInvestment(net_income, investment_amount, is_percentage) ==
    IF is_percentage THEN (net_income * investment_amount) \div 100 ELSE investment_amount

\* lines 451-466: the zero data, with Month counted from 0, and the locals
SelfSetup ==
    /\ pc = "self_call"
    /\ LET months == Len(args.stock_prices) IN
       /\ cols' = [c \in SelfColumns \cup {"Month"} |->
                      IF c = "Month" THEN [m \in 1..months |-> m - 1]
                                     ELSE [m \in 1..months |-> 0]]
       /\ loc' = [months |-> months,
                  monthly_investment |-> MonthlyInvestment(args.net_income,
                                             args.investment_amount, args.is_percentage),
                  cumulative_stocks |-> 0,
                  month |-> 0]
    /\ pc' = "self_loop"
    /\ UNCHANGED <<args, frame>>

\* lines 468-477: one iteration of the loop, for month = loc.month
SelfMonth ==
    /\ pc = "self_loop"
    /\ loc.month < loc.months
    /\ LET at            == loc.month + 1
           price         == args.stock_prices[at]
           stocks_bought == IF price > 0 THEN loc.monthly_investment \div price ELSE 0
           cumulative_stocks == loc.cumulative_stocks + stocks_bought
       IN  /\ cols' = [cols EXCEPT
                          !.Self_Investment[at] = loc.monthly_investment,
                          !.Self_Stocks_Bought[at] = stocks_bought,
                          !.Self_Value[at] = stocks_bought * price,
                          !.Self_Cumulative_Stocks[at] = cumulative_stocks,
                          !.Self_Cumulative_Value[at] = cumulative_stocks * price]
           /\ loc' = [loc EXCEPT !.cumulative_stocks = cumulative_stocks,
                                 !.month = @ + 1]
    /\ UNCHANGED <<args, pc, frame>>

\* line 479: the DataFrame is returned
SelfReturn ==
    /\ pc = "self_loop"
    /\ loc.month >= loc.months
    /\ frame' = cols
    /\ pc' = "self_done"
    /\ UNCHANGED <<args, loc, cols>>

\* the investments are non-negative and a whole number of stocks at 40 and at 80
SelfInputs ==
    {a \in [net_income        : {0, 8000},
            investment_amount : {0, 1, 80, 240},
            is_percentage     : BOOLEAN,
            stock_prices      : UNION {LookbackPaths(months) :
                                          months \in {5, MaxStockMonths}}] :
        /\ a.is_percentage => a.investment_amount <= 100
        /\ MonthlyInvestment(a.net_income, a.investment_amount, a.is_percentage) % 80 = 0}

InitSelf ==
    /\ args \in SelfInputs
    /\ pc = "self_call"
    /\ loc = [months |-> 0]
    /\ cols = << >>
    /\ frame = << >>

NextSelf == SelfSetup \/ SelfMonth \/ SelfReturn

SpecSelf == InitSelf /\ [][NextSelf]_vars

-----------------------------------------------------------------------------
(* Claims about calculate_self_buying *)

\* the monthly investment as the arguments state it
StatedInvestment ==
    IF args.is_percentage
    THEN (args.net_income * args.investment_amount) \div 100
    ELSE args.investment_amount

\* C23: every month of the horizon records the same investment, investment_amount or
\* net_income * investment_amount / 100 in percentage mode, and buys investment /
\* price stocks, 0 at a price <= 0; Self_Cumulative_Stocks is the running sum of the
\* stocks bought and never decreases.
C23_SelfBuying ==
    pc = "self_done" =>
        /\ \A c \in SelfColumns : Len(frame[c]) = Len(args.stock_prices)
        /\ \A m \in 1..Len(args.stock_prices) :
              /\ frame.Self_Investment[m] = StatedInvestment
              /\ args.stock_prices[m] > 0 =>
                    frame.Self_Stocks_Bought[m] * args.stock_prices[m] = StatedInvestment
              /\ args.stock_prices[m] <= 0 => frame.Self_Stocks_Bought[m] = 0
              /\ frame.Self_Cumulative_Stocks[m] = RunningSum(frame.Self_Stocks_Bought, m)
              /\ m > 1 => frame.Self_Cumulative_Stocks[m] >= frame.Self_Cumulative_Stocks[m - 1]

\* C23 witness: 1 percent of 8000 on the path 40, -40, 0, 40, ...: 2 stocks in the
\* months at 40 and none in the others, 8 stocks after twelve months.
C23_Witness ==
    /\ pc = "self_done"
    /\ args.is_percentage
    /\ args.net_income = 8000
    /\ args.investment_amount = 1
    /\ Len(args.stock_prices) = MaxStockMonths
    /\ args.stock_prices[2] = -40
    /\ args.stock_prices[3] = 0
    /\ frame.Self_Investment[3] = 80
    /\ frame.Self_Stocks_Bought[1] = 2
    /\ frame.Self_Stocks_Bought[2] = 0
    /\ frame.Self_Stocks_Bought[3] = 0
    /\ frame.Self_Cumulative_Stocks[12] = 8

-----------------------------------------------------------------------------
(* src/pages/wealth_calculator.py: the buffer warning below the projection.  The
   script computes the projection, then checks the bank reserve; session_state keeps
   the breach status of the previous run. *)

RECURSIVE ColumnMin(_, _)
\* line 864: net_worth_df["Bank Reserve"].min() over the rows 1..n
ColumnMin(net_worth_df, n) ==
    IF n = 1 THEN net_worth_df[1].BankReserve
    ELSE LET rest == ColumnMin(net_worth_df, n - 1)
         IN  IF net_worth_df[n].BankReserve < rest THEN net_worth_df[n].BankReserve
                                                  ELSE rest

\* line 865: buffer_breach = min_bank_reserve < financial_buffer
buffer_breach(net_worth_df, financial_buffer) ==
    ColumnMin(net_worth_df, Len(net_worth_df)) < financial_buffer

BreachRow(financial_buffer, row) == row.BankReserve < financial_buffer

\* mutant: month 0 is left out of the search
first_breach_month_later(net_worth_df, financial_buffer) ==
    LET breach_months ==
            SelectSeq(Tail(net_worth_df), LAMBDA row : BreachRow(financial_buffer, row))
    IN  IF Len(breach_months) > 0 THEN breach_months[1].Month ELSE 0

\* lines 877-880: the Month of the first row whose Bank Reserve is below the buffer
first_breach_month(net_worth_df, financial_buffer) ==
    LET breach_months ==
            SelectSeq(net_worth_df, LAMBDA row : BreachRow(financial_buffer, row))
    IN  IF Len(breach_months) > 0 THEN breach_months[1].Month ELSE 0

\* lines 867-871: the breach status changed since the last run: it is stored and the
\* script runs again from the top
BufferRerun ==
    /\ pc = "done"
    /\ buffer_breach(frame, args.financial_buffer) # args.session_buffer_breach
    /\ args' = [args EXCEPT !.session_buffer_breach =
                                buffer_breach(frame, args.financial_buffer)]
    /\ pc' = "call"
    /\ loc' = NoLocals
    /\ cols' = NoCols
    /\ frame' = << >>

\* lines 873-890: the status is stored, and on a breach st.error shows the warning
\* with the first breaching month and the minimum
BufferWarn ==
    /\ pc = "done"
    /\ buffer_breach(frame, args.financial_buffer) = args.session_buffer_breach
    /\ loc' = IF buffer_breach(frame, args.financial_buffer)
              THEN [warning |-> TRUE,
                    first_breach_month |-> first_breach_month(frame, args.financial_buffer),
                    min_bank_reserve |-> ColumnMin(frame, Len(frame))]
              ELSE [warning |-> FALSE]
    /\ pc' = "warned"
    /\ UNCHANGED <<args, cols, frame>>

\* the financial buffer is a free text input: below, at and above the balances
FinancialBuffers == {-5, 0, 16, 41}

WithBuffer(a, financial_buffer, previous_breach) ==
    [f \in DOMAIN a \cup {"financial_buffer", "session_buffer_breach"} |->
        IF f = "financial_buffer" THEN financial_buffer
        ELSE IF f = "session_buffer_breach" THEN previous_breach
        ELSE a[f]]

\* the projections without stock income and without growth of home and stocks
BufferInputs ==
    {WithBuffer(a, financial_buffer, previous_breach) :
        a \in {b \in NWInputs : /\ b.stock_income = 0
                                /\ b.home_appreciation_rate = 0
                                /\ b.stock_growth_rate = 0
                                /\ ~b.reinvest_dividends
                                /\ b.property_value \in {0, 156}},
        financial_buffer \in FinancialBuffers,
        previous_breach \in BOOLEAN}

InitBuffer ==
    /\ args \in BufferInputs
    /\ pc = "call"
    /\ loc = NoLocals
    /\ cols = NoCols
    /\ frame = << >>

NextBuffer == NWSetup \/ NWMonth \/ NWReturn \/ BufferRerun \/ BufferWarn

SpecBuffer == InitBuffer /\ [][NextBuffer]_vars

-----------------------------------------------------------------------------
(* Claims about the buffer warning *)

Warned == pc = "warned"

BreachingRows == {i \in Rows : frame[i].BankReserve < args.financial_buffer}

\* C25: the warning is shown if and only if some row of the series, month 0
\* included, has a Bank Reserve below the financial buffer, and the month it names
\* is the smallest Month of those rows.
C25_BufferWarning ==
    Warned =>
        /\ loc.warning <=> BreachingRows # {}
        /\ loc.warning =>
              /\ \E i \in BreachingRows : frame[i].Month = loc.first_breach_month
              /\ \A i \in BreachingRows : frame[i].Month >= loc.first_breach_month

\* C25 witness: 40 in the bank, 8 a month short, a buffer of 16: the reserve is
\* 40, 32, 24, 16, 8 and first below the buffer in month 4.
C25_Witness ==
    /\ Warned
    /\ loc.warning
    /\ args.financial_buffer = 16
    /\ frame[1].BankReserve = 40
    /\ frame[4].BankReserve = 16
    /\ frame[5].BankReserve = 8
    /\ loc.first_breach_month = 4

-----------------------------------------------------------------------------
(* Claims about a deficit larger than the liquid assets and about the constant
   mortgage payment, on the series of calculate_net_worth *)

\* the month of row i has a deficit larger than Bank Reserve plus Stock Wealth, both
\* taken after the month's interest, growth and reinvested dividends
DeficitExceedsAssets(i) ==
    /\ Flow < 0
    /\ -Flow > BankAfterInterest(i) + StockAfterGrowth(i)

\* both buckets of row i are 0 and the month after it, if any, is the transition
\* from balances of 0
DeficitDropped(i) ==
    /\ frame[i].BankReserve = 0
    /\ frame[i].StockWealth = 0
    /\ frame[i].NetWorth = frame[i].HomeEquity
    /\ i + 1 \in Rows =>
          /\ frame[i + 1].BankReserve = 0
          /\ frame[i + 1].StockWealth = Max(0, Dividend + Flow)

\* C26 as stated: whenever the deficit exceeds Bank Reserve plus Stock Wealth, both
\* end the month at 0.  Violated: a Stock Wealth made negative by negative reinvested
\* stock income is left as it is when the Bank Reserve alone covers the deficit.
C26_DeficitDroppedAsStated ==
    Done => \A i \in LaterRows : DeficitExceedsAssets(i) => DeficitDropped(i)

\* C26: when a month's deficit exceeds Bank Reserve plus Stock Wealth and the Stock
\* Wealth is not negative, both end the month at exactly 0, Net Worth equals Home
\* Equity, and the next month starts from balances of 0: nothing of the uncovered
\* remainder is carried over.
C26_DeficitDropped ==
    Done => \A i \in LaterRows :
               (DeficitExceedsAssets(i) /\ StockAfterGrowth(i) >= 0) => DeficitDropped(i)

\* C26 witness: 8 in stocks, nothing in the bank, expenses 8 and a payment of 12
\* without income: the deficit of 20 empties both in month 1, the 12 left over are
\* gone in month 2, and the net worth of month 1 is the home equity 24.
C26_Witness ==
    /\ Done
    /\ Len(frame) > 2
    /\ Flow = -20
    /\ frame[1].BankReserve = 0
    /\ frame[1].StockWealth = 8
    /\ DeficitExceedsAssets(2)
    /\ frame[2].BankReserve = 0
    /\ frame[2].StockWealth = 0
    /\ frame[2].NetWorth = 24
    /\ frame[2].HomeEquity = 24
    /\ frame[3].BankReserve = 0
    /\ frame[3].StockWealth = 0

\* the payment computed before the loop
ConstantPayment ==
    calculate_mortgage(args.property_value, args.mortgage_rate, args.mortgage_years,
                       args.down_payment)

\* row i follows from row i - 1 by the cash flow: income - expenses - payment
MonthUsesFlow(i, flow) ==
    IF flow > 0
    THEN frame[i].BankReserve + frame[i].StockWealth
            = BankAfterInterest(i) + StockAfterGrowth(i) + flow
    ELSE IF BankAfterInterest(i) + flow >= 0
         THEN /\ frame[i].BankReserve = BankAfterInterest(i) + flow
              /\ frame[i].StockWealth = StockAfterGrowth(i)
         ELSE /\ frame[i].BankReserve = 0
              /\ frame[i].StockWealth
                    = Max(0, StockAfterGrowth(i) + BankAfterInterest(i) + flow)

\* C27: the mortgage payment subtracted from the monthly cash flow is the one
\* constant computed before the loop, in every month 1..years*12: also in the months
\* after the amortization schedule has ended, where Mortgage Balance is 0, so the
\* cash flow is the same in all months of a run.
C27_ConstantPayment ==
    /\ pc \in {"loop", "done"} => loc.monthly_payment = ConstantPayment
    /\ Done => \A i \in LaterRows :
                  MonthUsesFlow(i, RegularIncome - args.monthly_expenses - ConstantPayment)

\* C27 witness: a one-year loan of 144 in a two-year projection, income 24, expenses
\* 8, payment 12, all savings to the bank: month 13 has no mortgage balance left and
\* the reserve still grows by 4 a month, 40 + 13 * 4 = 92.
C27_Witness ==
    /\ Done
    /\ Len(frame) = 25
    /\ Len(Schedule) = 12
    /\ ConstantPayment = 12
    /\ Flow = 4
    /\ args.bank_reserve_ratio = <<1, 1>>
    /\ frame[1].BankReserve = 40
    /\ frame[13].MortgageBalance = 0
    /\ frame[14].MortgageBalance = 0
    /\ frame[14].BankReserve = 92
    /\ frame[25].BankReserve = 136

-----------------------------------------------------------------------------
(* Conservation of the stocks of an RSU block *)

Quarters == 0..(TotalQuarters(args.vesting_period_months) - 1)

\* the month in which tranche q is due: the tranches of the delayed quarters come
\* with the first payout after the delay, the others at the end of their quarter
TrancheMonth(q) ==
    IF args.delay_months \div 3 > 0 /\ q <= args.delay_months \div 3
    THEN CliffPayoutMonth
    ELSE args.start_offset + (q + 1) * 3

RECURSIVE TranchesDueIn(_, _)
\* the tranches 0..q that are due in month m, together
TranchesDueIn(m, q) ==
    IF q < 0 THEN 0
    ELSE (IF TrancheMonth(q) = m THEN Tranche(q) ELSE 0) + TranchesDueIn(m, q - 1)

\* the block of the claim: stocks to vest, at least one quarter, a delay shorter
\* than the vesting period in quarters, and a horizon with every payout month
ConservationCase ==
    /\ args.total_stocks >= 0
    /\ args.vesting_period_months >= 3
    /\ args.delay_months \div 3 < args.vesting_period_months \div 3
    /\ \A q \in Quarters : TrancheMonth(q) \in Months

\* C28: with total_stocks >= 0, a vesting period of at least 3 months, a delay of
\* fewer quarters than the vesting period (a multiple of 3 or not) and a horizon that
\* holds every payout month, every tranche is vested exactly once: the tranches are
\* floor(total / quarters) or one more, the larger ones first, no two payouts fall in
\* the same month, and RSU_Stocks_Vested sums to total_stocks.
C28_Conservation ==
    (RSUDone /\ ConservationCase) =>
        LET last == TotalQuarters(args.vesting_period_months) - 1
            base == args.total_stocks \div (last + 1)
        IN  /\ \A m \in Months : Vested(m) = TranchesDueIn(m, last)
            /\ \A q \in Quarters :
                  /\ Tranche(q) \in {base, base + 1}
                  /\ q > 0 => Tranche(q) <= Tranche(q - 1)
            /\ \A q1, q2 \in Quarters :
                  (q1 < q2 /\ q1 >= args.delay_months \div 3)
                     => TrancheMonth(q1) < TrancheMonth(q2)
            /\ RunningSum(frame.RSU_Stocks_Vested, Len(args.stock_prices))
                  = args.total_stocks

\* C28 witness: 35 stocks over 12 months, granted in month 2 with a delay of 4
\* months: 9 + 9 in month 9, 9 in month 11 and 8 in month 14.
C28_Witness ==
    /\ RSUDone
    /\ ConservationCase
    /\ args.total_stocks = 35
    /\ args.vesting_period_months = 12
    /\ args.start_offset = 2
    /\ args.delay_months = 4
    /\ Vested(9) = 18
    /\ Vested(11) = 9
    /\ Vested(14) = 8
    /\ RunningSum(frame.RSU_Stocks_Vested, Len(args.stock_prices)) = 35

-----------------------------------------------------------------------------
(* src/pages/income_expenses.py: the amounts of the items are Python floats.  A float
   is [m |-> <<hi, lo>>, e |-> e], the binary64 value (hi * 2^26 + lo) * 2^e with a
   mantissa of 53 bits, 2^52 <= hi * 2^26 + lo < 2^53, or zero; division and
   multiplication round to the nearest mantissa, a tie to the even one. *)

\* 2^26, the weight of the high half of a mantissa
LimbBase == 67108864

Zero == [m |-> <<0, 0>>, e |-> 0]

\* carries the overflow of the low half into the high half
Normal(w) == << w[1] + w[2] \div LimbBase, w[2] % LimbBase >>

ScaleUp(w, k) == Normal(<< w[1] * k, w[2] * k >>)

Succ(w) == Normal(<< w[1], w[2] + 1 >>)

\* w / 3 rounded to the nearest integer (the remainder is never a tie)
DivThree(w) ==
    LET t == (w[1] % 3) * LimbBase + w[2]
        q == << w[1] \div 3, t \div 3 >>
    IN  IF t % 3 = 2 THEN Succ(q) ELSE q

\* w / p for p = 2 or 4, rounded to the nearest integer, a tie to the even one
ShiftRight(w, p) ==
    LET d == w[2] % p
        q == << w[1] \div p, (w[1] % p) * (LimbBase \div p) + w[2] \div p >>
    IN  IF 2 * d > p \/ (2 * d = p /\ q[2] % 2 = 1) THEN Succ(q) ELSE q

\* a mantissa rounded up to 2^53 is 2^52 with the next exponent
Renorm(x) ==
    IF x.m[1] >= 2 * LimbBase THEN [m |-> << x.m[1] \div 2, 0 >>, e |-> x.e + 1] ELSE x

\* lines 313, 323: item["amount"] / 12
FloatDiv12(x) ==
    IF x = Zero THEN Zero
    ELSE IF 2 * x.m[1] >= 3 * LimbBase
         THEN [m |-> DivThree(ScaleUp(x.m, 2)), e |-> x.e - 3]
         ELSE [m |-> DivThree(ScaleUp(x.m, 4)), e |-> x.e - 4]

\* lines 343, 351: item["amount"] * 12
FloatMul12(y) ==
    IF y = Zero THEN Zero
    ELSE LET w == ScaleUp(y.m, 3)
         IN  IF w[1] < 4 * LimbBase
             THEN Renorm([m |-> ShiftRight(w, 2), e |-> y.e + 3])
             ELSE [m |-> ShiftRight(w, 4), e |-> y.e + 4]

\* the amounts 5000.0, 1200.0, 3000.0 and 0.21 as binary64 floats
Amount5000 == [m |-> <<81920000, 0>>, e |-> -40]

Amount1200 == [m |-> <<78643200, 0>>, e |-> -42]

Amount3000 == [m |-> <<98304000, 0>>, e |-> -41]

Amount021 == [m |-> <<112742891, 34896609>>, e |-> -55]

-----------------------------------------------------------------------------
(* src/pages/income_expenses.py: toggle_calculation_mode, save_settings and
   load_settings.  frame is st.session_state, cols the saved settings files by name,
   args the session state the page started with, loc.events the calls made so far. *)

\* item.get("hidden", False)
Hidden(item) == IF "hidden" \in DOMAIN item THEN item.hidden ELSE FALSE

IsConverted(item) == "original_yearly" \in DOMAIN item

\* lines 312-320, 322-330: the monthly item made of a yearly one
MonthlyOfYearly(item) ==
    [name            |-> item.name \o " (yearly/12)",
     amount          |-> FloatDiv12(item.amount),
     original_yearly |-> item.amount,
     original_name   |-> item.name,
     hidden          |-> Hidden(item)]

\* lines 341-345, 349-353: the yearly item made of a converted monthly one
YearlyOfMonthly(item) ==
    [name   |-> item.original_name,
     amount |-> FloatMul12(item.amount),
     hidden |-> Hidden(item)]

MapItems(Op(_), items) == [i \in 1..Len(items) |-> Op(items[i])]

\* lines 308-365: the session state after toggle_calculation_mode
toggle_calculation_mode(state) ==
    IF state.calc_mode = "separate"
    THEN [income_monthly_items  |-> state.income_monthly_items
                                      \o MapItems(MonthlyOfYearly, state.income_yearly_items),
          expense_monthly_items |-> state.expense_monthly_items
                                      \o MapItems(MonthlyOfYearly, state.expense_yearly_items),
          income_yearly_items   |-> << >>,
          expense_yearly_items  |-> << >>,
          calc_mode             |-> "monthly"]
    ELSE [income_yearly_items   |-> state.income_yearly_items
                                      \o MapItems(YearlyOfMonthly,
                                            SelectSeq(state.income_monthly_items, IsConverted)),
          expense_yearly_items  |-> state.expense_yearly_items
                                      \o MapItems(YearlyOfMonthly,
                                            SelectSeq(state.expense_monthly_items, IsConverted)),
          income_monthly_items  |-> SelectSeq(state.income_monthly_items,
                                              LAMBDA item : ~IsConverted(item)),
          expense_monthly_items |-> SelectSeq(state.expense_monthly_items,
                                              LAMBDA item : ~IsConverted(item)),
          calc_mode             |-> "separate"]

\* lines 50-54: the item without the tracking key original_yearly
WithoutTracking(item) == [k \in DOMAIN item \ {"original_yearly"} |-> item[k]]

\* lines 41-58: the settings written to the file; json keeps strings, booleans and
\* floats as they are
SettingsOf(state) ==
    [income_monthly_items  |-> MapItems(WithoutTracking, state.income_monthly_items),
     income_yearly_items   |-> state.income_yearly_items,
     expense_monthly_items |-> MapItems(WithoutTracking, state.expense_monthly_items),
     expense_yearly_items  |-> state.expense_yearly_items,
     calc_mode             |-> state.calc_mode]

MaxEvents == 4

CanCall == pc = "page" /\ Len(loc.events) < MaxEvents

\* the button of lines 452-457 calls toggle_calculation_mode
Toggle ==
    /\ CanCall
    /\ frame' = toggle_calculation_mode(frame)
    /\ loc' = [loc EXCEPT !.events = Append(@, <<"toggle", "">>)]
    /\ UNCHANGED <<args, pc, cols>>

\* lines 28-58: save_settings(name); an empty name saves nothing
Save(name) ==
    /\ CanCall
    /\ cols' = IF name = "" THEN cols
               ELSE [n \in DOMAIN cols \cup {name} |->
                        IF n = name THEN SettingsOf(frame) ELSE cols[n]]
    /\ loc' = [loc EXCEPT !.events = Append(@, <<"save", name>>)]
    /\ UNCHANGED <<args, pc, frame>>

\* lines 61-91: load_settings(name); an empty name or a missing file loads nothing
Load(name) ==
    /\ CanCall
    /\ frame' = IF name = "" \/ name \notin DOMAIN cols THEN frame ELSE cols[name]
    /\ loc' = [loc EXCEPT !.events = Append(@, <<"load", name>>)]
    /\ UNCHANGED <<args, pc, cols>>

SettingNames == {"", "plan"}

Salary == [name |-> "Primary Salary", amount |-> Amount3000]

Bonus == [name |-> "Bonus", amount |-> Amount5000]

TaxReturn == [name |-> "Tax Return", amount |-> Amount1200, hidden |-> TRUE]

Interest == [name |-> "Interest", amount |-> Amount021]

Rent == [name |-> "Rent/Mortgage", amount |-> Amount1200, hidden |-> FALSE]

Insurance == [name |-> "Insurance", amount |-> Amount1200]

Vacation == [name |-> "Vacation", amount |-> Amount3000, hidden |-> TRUE]

\* the page starts in mode 'separate' with lists like those of init_finance_state
ItemInputs ==
    [income_monthly_items  : {<< >>, <<Salary>>},
     income_yearly_items   : {<< >>, <<Bonus>>, <<Bonus, TaxReturn>>, <<Interest, Bonus>>},
     expense_monthly_items : {<<Rent>>},
     expense_yearly_items  : {<< >>, <<Insurance>>, <<Vacation, Insurance>>},
     calc_mode             : {"separate"}]

InitItems ==
    /\ args \in ItemInputs
    /\ frame = args
    /\ pc = "page"
    /\ loc = [events |-> << >>]
    /\ cols = << >>

NextItems ==
    \/ Toggle
    \/ \E name \in SettingNames : Save(name)
    \/ \E name \in SettingNames : Load(name)

SpecItems == InitItems /\ [][NextItems]_vars

-----------------------------------------------------------------------------
(* Claims about the calculation mode and the saved settings *)

ToggleCall == <<"toggle", "">>

SavePlan == <<"save", "plan">>

LoadPlan == <<"load", "plan">>

\* the same names, amounts and hidden flags in the same order
SameItems(items, originals) ==
    /\ Len(items) = Len(originals)
    /\ \A i \in 1..Len(originals) :
          /\ items[i].name = originals[i].name
          /\ items[i].amount = originals[i].amount
          /\ Hidden(items[i]) = Hidden(originals[i])

\* the monthly list of mode 'monthly': the monthly items as they were, then one item
\* for every yearly item, in order, with its hidden flag
MovedToMonthly(monthly, old_monthly, old_yearly) ==
    /\ Len(monthly) = Len(old_monthly) + Len(old_yearly)
    /\ SubSeq(monthly, 1, Len(old_monthly)) = old_monthly
    /\ \A i \in 1..Len(old_yearly) :
          LET item == monthly[Len(old_monthly) + i]
          IN  /\ item.original_name = old_yearly[i].name
              /\ item.original_yearly = old_yearly[i].amount
              /\ Hidden(item) = Hidden(old_yearly[i])

\* the mode after n calls of toggle_calculation_mode, starting in 'separate'
OnlyToggles == \A k \in 1..Len(loc.events) : loc.events[k] = ToggleCall

\* C29: toggle_calculation_mode is a round trip.  From mode 'separate' one call moves
\* every yearly item into the matching monthly list and empties the yearly lists; a
\* second call restores mode 'separate', the monthly lists with their original items
\* in order and the yearly lists with the same names, amounts and hidden flags in
\* order; the mode alternates on every call.
C29_ToggleRoundTrip ==
    /\ OnlyToggles =>
          frame.calc_mode = IF Len(loc.events) % 2 = 0 THEN "separate" ELSE "monthly"
    /\ loc.events = <<ToggleCall>> =>
          /\ frame.income_yearly_items = << >>
          /\ frame.expense_yearly_items = << >>
          /\ MovedToMonthly(frame.income_monthly_items, args.income_monthly_items,
                            args.income_yearly_items)
          /\ MovedToMonthly(frame.expense_monthly_items, args.expense_monthly_items,
                            args.expense_yearly_items)
    /\ loc.events = <<ToggleCall, ToggleCall>> =>
          /\ frame.income_monthly_items = args.income_monthly_items
          /\ frame.expense_monthly_items = args.expense_monthly_items
          /\ SameItems(frame.income_yearly_items, args.income_yearly_items)
          /\ SameItems(frame.expense_yearly_items, args.expense_yearly_items)

\* the lists and the mode of two session states agree, item by item
SameSettings(state, before) ==
    /\ state.calc_mode = before.calc_mode
    /\ SameItems(state.income_monthly_items, before.income_monthly_items)
    /\ SameItems(state.income_yearly_items, before.income_yearly_items)
    /\ SameItems(state.expense_monthly_items, before.expense_monthly_items)
    /\ SameItems(state.expense_yearly_items, before.expense_yearly_items)

SameNames(items, originals) ==
    /\ Len(items) = Len(originals)
    /\ \A i \in 1..Len(originals) : items[i].name = originals[i].name

\* C30: save_settings(name) followed by load_settings(name) leaves the item lists
\* and calc_mode as they were before saving, in mode 'separate' and in mode
\* 'monthly', and a later toggle from 'monthly' back to 'separate' still returns every
\* converted item to the yearly lists: none is lost or left among the monthly items.
C30_SaveLoad ==
    /\ loc.events = <<SavePlan, LoadPlan>> => SameSettings(frame, args)
    /\ loc.events = <<ToggleCall, SavePlan, LoadPlan>> =>
          SameSettings(frame, toggle_calculation_mode(args))
    /\ loc.events = <<ToggleCall, SavePlan, LoadPlan, ToggleCall>> =>
          /\ frame.calc_mode = "separate"
          /\ SameNames(frame.income_yearly_items, args.income_yearly_items)
          /\ SameNames(frame.expense_yearly_items, args.expense_yearly_items)
          /\ SameNames(frame.income_monthly_items, args.income_monthly_items)
          /\ SameNames(frame.expense_monthly_items, args.expense_monthly_items)

====
